---- MODULE Spec2Model ----
(***************************************************************************)
(* Tender audit system: the rule engines that compare the field record of  *)
(* a tender announcement with the field record of the bidding              *)
(* instructions, and the report assemblers that summarise the verdicts.    *)
(*                                                                         *)
(* Four programs of the repository are modelled; one run of the model is   *)
(* one run of one of them (variable prog):                                 *)
(*   "v1"    tender_compliance_validator.py  TenderComplianceValidator     *)
(*   "sys"   tender_audit_system.py          TenderComplianceValidator     *)
(*                                           + TenderAuditSystem           *)
(*   "smart" tender_audit_system_v2.1.py     SmartComplianceValidator      *)
(*                                           + IntelligentAuditSystem      *)
(*   "c23"   the 23-item checker             Complete23ItemChecker         *)
(*                                                                         *)
(* The module text is ASCII.  Dictionary keys and values of the source are *)
(* written with these names:                                               *)
(*   announcement keys      case_no = 案號, case_name = 案名,              *)
(*     tender_method = 招標方式, amount = 採購金額,                        *)
(*     amount_band = 採購金級距, legal_basis = 依據法條,                   *)
(*     award_method = 決標方式, reserve_price = 訂有底價,                  *)
(*     multiple_award = 複數決標, art64_2 = 依64條之2,                     *)
(*     category = 標的分類, treaty = 適用條約, sensitive = 敏感性採購,     *)
(*     national_security = 國安採購, option = 增購權利,                    *)
(*     special = 特殊採購, turnkey = 統包, negotiation = 協商措施,         *)
(*     e_collect = 電子領標, bond = 押標金, disabled_priority = 優先身障,  *)
(*     foreign = 外國廠商, sme_only = 限定中小企業, opening = 開標方式,    *)
(*     qualification = 廠商資格                                            *)
(*   instructions keys      case_no = 案號, object_name = 採購標的名稱,    *)
(*     bond_amount = 押標金金額, p3_tenth = 第3點逾公告金額十分之一,       *)
(*     p4_nonspecial = 第4點非特殊採購,                                    *)
(*     p5_tenth = 第5點逾公告金額十分之一, p6_reserve = 第6點訂底價,       *)
(*     p7_keep = 第7點保留增購, p7_nokeep = 第7點未保留增購,               *)
(*     p8_treaty = 第8點條約協定, p8_allow = 第8點可參與,                  *)
(*     p8_deny = 第8點不可參與, p8_ban_mainland = 第8點禁止大陸,           *)
(*     p9_ecollect = 第9點電子領標, p13_sensitive = 第13點敏感性,          *)
(*     p13_security = 第13點國安, p19_none = 第19點無需押標金,             *)
(*     p19_fixed = 第19點一定金額, p35_nonturnkey = 第35點非統包,          *)
(*     p42_single = 第42點不分段, p42_two = 第42點分二段,                  *)
(*     p54_noneg = 第54點不協商, p59_lowest = 第59點最低標,                *)
(*     p59_non64 = 第59點非64條之2, p59_disabled = 第59點身障優先          *)
(*   values   "yes" = 是, "no" = 否, "none" = 無, "checked" = 已勾選,      *)
(*     "unchecked" = 未勾選, "NA" = the unknown sentinel "NA"              *)
(*   result keys   verdict = 審核結果, passed = 通過項次,                  *)
(*     failed = 失敗項次, errors = 錯誤詳情, total = 總項次,               *)
(*     n_pass = 通過數, n_fail = 失敗數; in an error entry item = 項次,    *)
(*     type = 錯誤類型, desc = 說明                                        *)
(***************************************************************************)
EXTENDS Integers, Sequences, FiniteSets, TLC

VARIABLES
    prog,                 \* which program this run is
    pc,                   \* "ready": objects constructed; "done": the run returned; "raised": it ended in an exception
    announcement_data,    \* 公告: the announcement field record given to the rule engine
    requirements_data,    \* 須知: the instructions field record given to the rule engine
    validation_results,   \* TenderComplianceValidator.validation_results (one dict per validator, never replaced)
    returned,             \* what each validate_all call returned, as it was at the moment it returned
    calls,                \* validate_all calls made on the validator so far
    summary,              \* the report summary (generate_summary / _generate_executive_summary / generate_report)
    validation_items,     \* SmartComplianceValidator.validation_items
    detailed_result,      \* the report of validate_all_smart
    announcement_content, \* Complete23ItemChecker: what the announcement text holds
    instructions_content, \* Complete23ItemChecker: what the instructions text holds
    results,              \* Complete23ItemChecker.check_case: the ordered result list
    case_folder,          \* the case folder an audit is given: what the file system holds there
    posts,                \* the HTTP POSTs sent to the model service, in order, each with its outcome
    extracted,            \* the kind of Python value each field extraction returned
    audit_result,         \* what the audit entry point returned, or the exception that left it
    report_lines,         \* export_to_txt: the marker the text report shows for each check it lists
    listing,              \* the file names os.listdir(case_folder) returns, in its order
    selected,             \* the files find_announcement_file and find_requirements_file returned
    conversation_history, \* OllamaChat.conversation_history
    ai_response,          \* the text a service call returned, as it is given to the parse
    loads,                \* the texts given to json.loads while that text was parsed, in order
    parsed                \* what the parse returned

vars == <<prog, pc, announcement_data, requirements_data, validation_results, returned,
          calls, summary, validation_items, detailed_result,
          announcement_content, instructions_content, results,
          case_folder, posts, extracted, audit_result,
          report_lines, listing, selected, conversation_history,
          ai_response, loads, parsed>>

\* the state of the programs around the audit: the text report, the folder
\* listing and the files chosen from it, the chat client
aux == <<report_lines, listing, selected, conversation_history, ai_response, loads, parsed>>

\* the state of the audit front end: the folder, the service traffic, the outcome
io == <<case_folder, posts, extracted, audit_result>>

-----------------------------------------------------------------------------
(* Python values.                                                          *)

\* a key that is absent from the dict
Missing == "<missing>"

\* the unknown sentinel of the extractors' prompts
NA == "NA"

\* dict.get(key, default)
Get(d, k, default) == IF d[k] = Missing THEN default ELSE d[k]

\* Amount fields hold an int, a str or nothing.  A str keeps its text and the
\* integer its digits spell (digits = -1: the text has no digit).
IntV(n) == [t |-> "int", n |-> n, s |-> ""]
StrV(s, digits) == [t |-> "str", n |-> digits, s |-> s]
MissingV == [t |-> "missing", n |-> 0, s |-> ""]

\* dict.get(key, 0) of an amount field
GetAmt(d, k) == IF d[k].t = "missing" THEN IntV(0) ELSE d[k]

\* str(value) of an amount inside an f-string
ShowAmt(v) == IF v.t = "int" THEN ToString(v.n) ELSE IF v.t = "str" THEN v.s ELSE "None"

\* Texts (case numbers, case names) are sequences of one-character strings.
MissingText == <<Missing>>

\* dict.get(key, '') of a text field
GetText(d, k) == IF d[k] = MissingText THEN <<>> ELSE d[k]

\* str.upper() on the letters the model uses
UpperChar(c) ==
    CASE c = "a" -> "A"
      [] c = "b" -> "B"
      [] c = "c" -> "C"
      [] c = "x" -> "X"
      [] OTHER -> c

Upper(s) == [i \in 1..Len(s) |-> UpperChar(s[i])]

RECURSIVE LStrip(_)
LStrip(s) == IF s # <<>> /\ Head(s) = " " THEN LStrip(Tail(s)) ELSE s

RECURSIVE RStrip(_)
RStrip(s) == IF s # <<>> /\ s[Len(s)] = " " THEN RStrip(SubSeq(s, 1, Len(s) - 1)) ELSE s

\* str.strip()
Strip(s) == RStrip(LStrip(s))

\* str.replace(c, "")
RemoveChar(s, c) == SelectSeq(s, LAMBDA x : x # c)

\* a.startswith(b)
StartsWith(a, b) == Len(b) <= Len(a) /\ SubSeq(a, 1, Len(b)) = b

\* a.endswith(c) for one character c
EndsWithChar(a, c) == a # <<>> /\ a[Len(a)] = c

-----------------------------------------------------------------------------
(* difflib.SequenceMatcher(None, a, b).ratio() without junk: the longest   *)
(* matching block (earliest in a, then earliest in b), then the same to    *)
(* its left and to its right; ratio = 2 * matches / (len(a) + len(b)).     *)

Min2(x, y) == IF x < y THEN x ELSE y

\* length of the common run of a from i and b from j, inside a[..ahi], b[..bhi] (1-based, inclusive)
RECURSIVE RunLen(_, _, _, _, _, _)
RunLen(a, i, ahi, b, j, bhi) ==
    IF i > ahi \/ j > bhi \/ a[i] # b[j] THEN 0
    ELSE 1 + RunLen(a, i + 1, ahi, b, j + 1, bhi)

\* find_longest_match(alo, ahi, blo, bhi): <<i, j, k>>
FindLongestMatch(a, alo, ahi, b, blo, bhi) ==
    LET cand == {<<i, j, RunLen(a, i, ahi, b, j, bhi)>> : i \in alo..ahi, j \in blo..bhi}
        best == IF cand = {} THEN 0
                ELSE CHOOSE k \in {c[3] : c \in cand} : \A c \in cand : c[3] <= k
    IN  IF best = 0 THEN <<alo, blo, 0>>
        ELSE LET top == {c \in cand : c[3] = best}
                 bi == CHOOSE i \in {c[1] : c \in top} : \A c \in top : i <= c[1]
                 row == {c \in top : c[1] = bi}
                 bj == CHOOSE j \in {c[2] : c \in row} : \A c \in row : j <= c[2]
             IN  <<bi, bj, best>>

\* the total size of get_matching_blocks()
RECURSIVE Matches(_, _, _, _, _, _)
Matches(a, alo, ahi, b, blo, bhi) ==
    IF alo > ahi \/ blo > bhi THEN 0
    ELSE LET m == FindLongestMatch(a, alo, ahi, b, blo, bhi)
         IN  IF m[3] = 0 THEN 0
             ELSE m[3] + Matches(a, alo, m[1] - 1, b, blo, m[2] - 1)
                       + Matches(a, m[1] + m[3], ahi, b, m[2] + m[3], bhi)

\* SmartTextMatcher.similarity_ratio as the fraction <<numerator, denominator>>
similarity_ratio(str1, str2) ==
    IF str1 = <<>> \/ str2 = <<>> THEN <<0, 1>>
    ELSE <<2 * Matches(str1, 1, Len(str1), str2, 1, Len(str2)), Len(str1) + Len(str2)>>

\* comparisons of a fraction with a decimal literal of the source
RatioGT(r, num, den) == r[1] * den > num * r[2]
RatioLT(r, num, den) == r[1] * den < num * r[2]
RatioIsOne(r) == r[1] = r[2]

-----------------------------------------------------------------------------
(* The values the fields take in the model.  Each string value stands for  *)
(* one text of the documents; Contains tabulates Python's `sub in text`.   *)

\* 招標方式: "open_quotation" = 公開取得報價或企劃書招標, "open_tender" = 公開招標
TenderMethods == {"open_quotation", "open_tender", NA, Missing}
\* 採購金級距: "below_threshold" = 未達公告金額, "above_threshold" = 公告金額以上
AmountBands == {"below_threshold", "above_threshold", Missing}
\* 依據法條: "art49" = 政府採購法第49條, "art49_other_wording" = 採購法第49條, "art18" = 政府採購法第18條
LegalBases == {"art49", "art49_other_wording", "art18", Missing}
\* 決標方式: "lowest" = 最低標, "highest" = 最高標, "most_advantageous" = 最有利標
AwardMethods == {"lowest", "highest", NA, Missing}
YesNo == {"yes", "no", NA, Missing}
\* 增購權利: 是 / 無 / 否
Options == {"yes", "none", "no", NA, Missing}
\* 標的分類: "buy_custom" = 買受，定製, "lease" = 租購, "service" = 勞務
Categories == {"buy_custom", "lease", "service", NA, Missing}
\* 外國廠商: "allow" = 可, "deny" = 不可, "may_participate" = 得參與採購,
\* "may_not_participate" = 不得參與採購, "forbidden" = 禁止
Foreigns == {"allow", "deny", "may_participate", "may_not_participate", "forbidden", NA, Missing}
\* 廠商資格: "legal_registered" = 合法設立登記之廠商, "business_code" = 營業項目代碼
Qualifications == {"legal_registered", "business_code", NA, Missing}
\* 開標方式: "single_stage" = 一次投標不分段開標, "staged" = 一次投標分段開標, "two_stage" = 分二段開標
Openings == {"single_stage", "staged", "two_stage", NA, Missing}
\* a checkbox of the instructions: checked, unchecked, unknown or absent
Checkbox == {"checked", "unchecked", NA, Missing}

\* `sub in text` for the texts above.  The substrings the checks test:
\*   "kw_open_quotation" = 公開取得報價, "kw_open_get" = 公開取得, "kw_quotation" = 報價,
\*   "kw_proposal" = 企劃書, "kw_lowest" = 最低, "kw_low_bid" = 低標, "lowest" = lowest,
\*   "kw_buy_custom" = 買受，定製, "kw_buy" = 買受, "kw_custom" = 定製, "kw_ordered" = 訂製,
\*   "kw_manufacture" = 製造, "kw_goods" = 財物, "kw_items" = 物品, "kw_equipment" = 設備,
\*   "kw_material" = 材料, "kw_service" = 勞務, "kw_service2" = 服務, "kw_entrust" = 委託,
\*   "kw_contract" = 承攬, "kw_works" = 工程, "kw_build" = 營造, "kw_construct" = 建設,
\*   "kw_construction" = 施工, "kw_legal_registered" = 合法設立登記,
\*   "kw_not_staged" = 不分段, "kw_staged" = 分段, "kw_two_stage" = 分二段, "kw_two" = 二段,
\*   "kw_may" = 可, "kw_may_participate" = 得參與, "kw_can" = 可以, "kw_may_not" = 不可,
\*   "kw_shall_not" = 不得, "kw_shall_not_participate" = 不得參與, "kw_forbid" = 禁止, "49" = 49
Contains(sub, text) ==
    CASE sub \in {"kw_open_quotation", "kw_open_get", "kw_quotation", "kw_proposal"} ->
             text \in {"open_quotation"}
      [] sub \in {"kw_lowest", "kw_low_bid"} -> text \in {"lowest"}
      [] sub \in {"kw_buy_custom", "kw_buy", "kw_custom"} -> text \in {"buy_custom"}
      [] sub = "kw_service" -> text \in {"service"}
      [] sub = "kw_legal_registered" -> text \in {"legal_registered"}
      [] sub = "kw_not_staged" -> text \in {"single_stage"}
      [] sub = "kw_staged" -> text \in {"single_stage", "staged"}
      [] sub \in {"kw_two_stage", "kw_two"} -> text \in {"two_stage"}
      [] sub = "kw_may" -> text \in {"allow", "deny"}
      [] sub = "kw_may_participate" -> text \in {"may_participate", "may_not_participate"}
      [] sub = "kw_may_not" -> text \in {"deny"}
      [] sub \in {"kw_shall_not", "kw_shall_not_participate"} -> text \in {"may_not_participate"}
      [] sub = "kw_forbid" -> text \in {"forbidden"}
      [] sub = "49" -> text \in {"art49", "art49_other_wording"}
      [] OTHER -> FALSE

\* case numbers
X100 == <<"X", "1", "0", "0">>
X100A == <<"X", "1", "0", "0", "A">>
X100B == <<"X", "1", "0", "0", "B">>
X100lower == <<"x", "1", "0", "0">>
X100pad == <<" ", "X", "1", "0", "0">>
XA100 == <<"X", "A", "1", "0", "0">>
X200 == <<"X", "2", "0", "0">>
C13A07469 == <<"C", "1", "3", "A", "0", "7", "4", "6", "9">>
C13A07469A == <<"C", "1", "3", "A", "0", "7", "4", "6", "9", "A">>
C13A07469B == <<"C", "1", "3", "A", "0", "7", "4", "6", "9", "B">>
C13A07460 == <<"C", "1", "3", "A", "0", "7", "4", "6", "0">>
C13A0746901 == <<"C", "1", "3", "A", "0", "7", "4", "6", "9", "0", "1">>
C13A0746902 == <<"C", "1", "3", "A", "0", "7", "4", "6", "9", "0", "2">>
NAText == <<"N", "A">>

CaseNumbers == {X100, X100A, X100B, X100lower, X100pad, XA100, X200,
                C13A07469, C13A07469A, C13A07469B, C13A07460,
                C13A0746901, C13A0746902, NAText, <<>>, MissingText}

\* case names: 進氣閥等4項採購, 進氣閥等5項採購, an unrelated name
Valves4 == <<"v", "a", "l", "v", "e", "s", "4">>
Valves5 == <<"v", "a", "l", "v", "e", "s", "5">>
Pumps == <<"p", "u", "m", "p">>
CaseNames == {Valves4, Valves5, Pumps, NAText, <<>>, MissingText}

\* 採購金額: inside 150,000..1,500,000, below, just below, just above, a text, the sentinel, absent
Amounts == {IntV(1493940), IntV(100000), IntV(145000), IntV(1550000), IntV(2000000),
            StrV("1,493,940", 1493940), StrV(NA, -1), MissingV}

\* 押標金 / 押標金金額
Bonds == {IntV(59000), IntV(0), IntV(60000), IntV(57000), IntV(80000),
          StrV("59,000", 59000), StrV(NA, -1), MissingV}

\* the text of a case number or name inside an f-string
ShowText(t) == IF t = MissingText THEN "None" ELSE ToString(t)

-----------------------------------------------------------------------------
(* tender_audit_system.py: TenderComplianceValidator (22 items).           *)
(* A check takes the validator's validation_results r and the two records  *)
(* and gives [res, exc]: the validation_results it leaves and the          *)
(* exception it raised ("none", "KeyError", "TypeError").                  *)

Ok(r) == [res |-> r, exc |-> "none"]
Raise(r, e) == [res |-> r, exc |-> e]

\* TenderComplianceValidator.__init__ (審核時間, the construction time stamp, is left out)
NewValidationResults(total) ==
    [verdict |-> "pass", passed |-> <<>>, failed |-> <<>>, errors |-> <<>>,
     total |-> total, n_pass |-> 0, n_fail |-> 0]

\* add_error without the entry of 錯誤詳情
AddErrorNoDetail(r, item_num, error_type, description, values) ==
    [r EXCEPT !.failed = Append(@, item_num)]

add_error(r, item_num, error_type, description, values) ==
    [r EXCEPT !.failed = Append(@, item_num),
              !.errors = Append(@, [item |-> item_num, type |-> error_type,
                                    desc |-> description, vals |-> values])]

add_pass(r, item_num) == [r EXCEPT !.passed = Append(@, item_num)]

\* 150000 <= amount < 1500000 on an int
InQuotationRange(n) == 150000 <= n /\ n < 1500000

validate_item_1(r, A, I) ==
    IF A.case_no = MissingText \/ I.case_no = MissingText THEN Raise(r, "KeyError")
    ELSE IF A.case_name = MissingText \/ I.object_name = MissingText THEN Raise(r, "KeyError")
    ELSE LET case_number_match == RemoveChar(A.case_no, "A") = RemoveChar(I.case_no, "A")
             name_match == A.case_name = I.object_name
         IN  IF ~case_number_match
             THEN Ok(add_error(r, 1, "case_no_mismatch", "ann:{} vs ins:{}",
                               <<ShowText(A.case_no), ShowText(I.case_no)>>))
             ELSE IF ~name_match
             THEN Ok(add_error(r, 1, "case_name_mismatch", "ann:{} vs ins:{}",
                               <<ShowText(A.case_name), ShowText(I.object_name)>>))
             ELSE Ok(add_pass(r, 1))

\* the error list of item 2; the amount is an int here
Item2Errors(A, I, amt) ==
    (IF ~InQuotationRange(amt.n) THEN <<"amount_out_of_range">> ELSE <<>>)
    \o (IF A.amount_band # "below_threshold" THEN <<"band_should_be_below_threshold">> ELSE <<>>)
    \o (IF A.legal_basis # "art49" THEN <<"legal_basis_should_be_art49">> ELSE <<>>)
    \o (IF I.p3_tenth # "checked" THEN <<"p3_should_be_checked">> ELSE <<>>)

validate_item_2(r, A, I) ==
    IF Contains("kw_open_quotation", Get(A, "tender_method", ""))
    THEN LET amt == GetAmt(A, "amount")
         IN  IF amt.t # "int" THEN Raise(r, "TypeError")
             ELSE LET errors == Item2Errors(A, I, amt)
                  IN  IF errors # <<>>
                      THEN Ok(add_error(r, 2, "open_quotation_setting", "{errors joined}", errors))
                      ELSE Ok(add_pass(r, 2))
    ELSE Ok(add_pass(r, 2))
validate_item_3(r, A, I) ==
    IF Contains("kw_open_quotation", Get(A, "tender_method", ""))
    THEN IF I.p5_tenth # "checked"
         THEN Ok(add_error(r, 3, "instructions_setting", "p5 should be checked", <<>>))
         ELSE Ok(add_pass(r, 3))
    ELSE Ok(add_pass(r, 3))

validate_item_4(r, A, I) ==
    IF A.award_method = "lowest"
    THEN IF I.p59_lowest # "checked" \/ I.p59_non64 # "checked"
         THEN Ok(add_error(r, 4, "lowest_bid_setting", "p59 options should be checked", <<>>))
         ELSE Ok(add_pass(r, 4))
    ELSE Ok(add_pass(r, 4))

validate_item_5(r, A, I) ==
    IF A.reserve_price = "yes"
    THEN IF I.p6_reserve # "checked"
         THEN Ok(add_error(r, 5, "reserve_price_setting", "p6 should be checked", <<>>))
         ELSE Ok(add_pass(r, 5))
    ELSE Ok(add_pass(r, 5))

validate_item_6(r, A, I) ==
    IF A.multiple_award = "no"
    THEN Ok(add_pass(r, 6))
    ELSE Ok(add_error(r, 6, "multiple_award_setting", "should be non-multiple award", <<>>))

validate_item_7(r, A, I) ==
    IF A.art64_2 = "no"
    THEN IF I.p59_non64 # "checked"
         THEN Ok(add_error(r, 7, "art64_2_setting", "p59 non-64-2 should be checked", <<>>))
         ELSE Ok(add_pass(r, 7))
    ELSE Ok(add_pass(r, 7))

\* item 8 as a comparison with the instructions: an error only when the
\* instructions leave 非特殊採購 unchecked
Item8ReadsInstructions(r, A, I) ==
    IF Contains("kw_buy_custom", Get(A, "category", "")) /\ I.p4_nonspecial # "checked"
    THEN Ok(add_error(r, 8, "category_mismatch", "ann:{}, instructions may differ",
                      <<Get(A, "category", "")>>))
    ELSE Ok(add_pass(r, 8))

validate_item_8(r, A, I) ==
    LET category == Get(A, "category", "")
    IN  IF Contains("kw_buy_custom", category)
        THEN Ok(add_error(r, 8, "category_mismatch", "ann:{}, instructions may differ",
                          <<category>>))
        ELSE Ok(add_pass(r, 8))

validate_item_9(r, A, I) ==
    IF A.treaty = "no"
    THEN IF I.p8_treaty = "checked"
         THEN Ok(add_error(r, 9, "treaty_setting", "p8 treaty should not be checked", <<>>))
         ELSE Ok(add_pass(r, 9))
    ELSE Ok(add_pass(r, 9))

\* item 10 as an equivalence: the boxes checked exactly when the announcement says yes
SymmetricItem10(r, A, I) ==
    IF (A.sensitive = "yes") = (I.p13_sensitive = "checked" /\ I.p8_ban_mainland = "checked")
       /\ (A.sensitive = "yes") = (I.p13_sensitive = "checked" \/ I.p8_ban_mainland = "checked")
    THEN Ok(add_pass(r, 10))
    ELSE Ok(add_error(r, 10, "sensitive_setting", "{errors joined}", <<>>))

validate_item_10(r, A, I) ==
    IF A.sensitive = "yes"
    THEN LET errors == (IF I.p13_sensitive # "checked" THEN <<"p13_sensitive_should_be_checked">> ELSE <<>>)
                       \o (IF I.p8_ban_mainland # "checked" THEN <<"p8_ban_mainland_should_be_checked">> ELSE <<>>)
         IN  IF errors # <<>>
             THEN Ok(add_error(r, 10, "sensitive_setting", "{errors joined}", errors))
             ELSE Ok(add_pass(r, 10))
    ELSE Ok(add_pass(r, 10))

validate_item_11(r, A, I) ==
    IF A.national_security = "yes"
    THEN LET errors == (IF I.p13_security # "checked" THEN <<"p13_security_should_be_checked">> ELSE <<>>)
                       \o (IF I.p8_ban_mainland # "checked" THEN <<"p8_ban_mainland_should_be_checked">> ELSE <<>>)
         IN  IF errors # <<>>
             THEN Ok(add_error(r, 11, "national_security_setting", "{errors joined}", errors))
             ELSE Ok(add_pass(r, 11))
    ELSE Ok(add_pass(r, 11))

validate_item_12(r, A, I) ==
    IF A.option = "yes"
    THEN IF I.p7_keep # "checked"
         THEN Ok(add_error(r, 12, "option_setting", "p7 keep should be checked", <<>>))
         ELSE Ok(add_pass(r, 12))
    ELSE IF A.option = "none"
    THEN IF I.p7_nokeep # "checked"
         THEN Ok(add_error(r, 12, "option_setting", "p7 no-keep should be checked", <<>>))
         ELSE Ok(add_pass(r, 12))
    ELSE Ok(add_pass(r, 12))

\* validate_items_13_to_16, one item at a time
validate_item_13(r, A, I) ==
    IF A.special = "no"
    THEN IF I.p4_nonspecial # "checked"
         THEN add_error(r, 13, "special_setting", "p4 should be checked", <<>>)
         ELSE add_pass(r, 13)
    ELSE add_pass(r, 13)

validate_item_14(r, A, I) ==
    IF A.turnkey = "no"
    THEN IF I.p35_nonturnkey # "checked"
         THEN add_error(r, 14, "turnkey_setting", "p35 should be checked", <<>>)
         ELSE add_pass(r, 14)
    ELSE add_pass(r, 14)

validate_item_15(r, A, I) ==
    IF A.negotiation = "no"
    THEN IF I.p54_noneg # "checked"
         THEN add_error(r, 15, "negotiation_setting", "p54 should be checked", <<>>)
         ELSE add_pass(r, 15)
    ELSE add_pass(r, 15)

validate_item_16(r, A, I) ==
    IF A.e_collect = "yes"
    THEN IF I.p9_ecollect # "checked"
         THEN add_error(r, 16, "e_collect_setting", "p9 should be checked", <<>>)
         ELSE add_pass(r, 16)
    ELSE add_pass(r, 16)

validate_items_13_to_16(r, A, I) ==
    Ok(validate_item_16(validate_item_15(validate_item_14(validate_item_13(r, A, I), A, I), A, I), A, I))

validate_item_17(r, A, I) ==
    LET ann_bond == GetAmt(A, "bond")
        ins_bond == GetAmt(I, "bond_amount")
    IN  IF ann_bond # ins_bond
        THEN Ok(add_error(r, 17, "bond_mismatch", "ann:{} vs ins:{}",
                          <<ShowAmt(ann_bond), ShowAmt(ins_bond)>>))
        ELSE IF ann_bond.t # "int" THEN Raise(r, "TypeError")
        ELSE IF ann_bond.n > 0
        THEN IF I.p19_fixed # "checked"
             THEN Ok(add_error(r, 17, "bond_setting", "with a bond p19 fixed amount should be checked", <<>>))
             ELSE Ok(add_pass(r, 17))
        ELSE Ok(add_pass(r, 17))

validate_item_18(r, A, I) ==
    IF A.disabled_priority = "yes"
    THEN IF I.p59_disabled # "checked"
         THEN Ok(add_error(r, 18, "disabled_priority_setting", "p59 disabled priority should be checked", <<>>))
         ELSE Ok(add_pass(r, 18))
    ELSE Ok(add_pass(r, 18))

validate_item_19(r, A, I) ==
    IF A.foreign = "allow" \/ A.foreign = "may_participate"
    THEN IF I.p8_allow # "checked"
         THEN Ok(add_error(r, 19, "foreign_setting", "p8 allow should be checked", <<>>))
         ELSE Ok(add_pass(r, 19))
    ELSE IF A.foreign = "deny" \/ Contains("kw_shall_not_participate", Get(A, "foreign", ""))
    THEN IF I.p8_deny # "checked"
         THEN Ok(add_error(r, 19, "foreign_setting", "p8 deny should be checked", <<>>))
         ELSE Ok(add_pass(r, 19))
    ELSE Ok(add_pass(r, 19))

validate_item_20_v21(r, A, I) ==
    IF A.sme_only = "yes"
    THEN IF I.p8_deny # "checked"
         THEN Ok(add_error(r, 20, "sme_setting", "sme only: p8 deny should be checked", <<>>))
         ELSE Ok(add_pass(r, 20))
    ELSE Ok(add_pass(r, 20))

validate_item_21_v21(r, A, I) ==
    IF Contains("kw_legal_registered", Get(A, "qualification", ""))
    THEN Ok(add_pass(r, 21))
    ELSE Ok(add_error(r, 21, "qualification_unclear", "announcement states no qualification", <<>>))

validate_item_22(r, A, I) ==
    IF Contains("kw_not_staged", Get(A, "opening", ""))
    THEN IF I.p42_single # "checked"
         THEN Ok(add_error(r, 22, "opening_setting", "p42 single stage should be checked", <<>>))
         ELSE IF I.p42_two = "checked"
         THEN Ok(add_error(r, 22, "opening_contradiction", "both opening methods checked", <<>>))
         ELSE Ok(add_pass(r, 22))
    ELSE IF Contains("kw_staged", Get(A, "opening", ""))
    THEN IF I.p42_two # "checked"
         THEN Ok(add_error(r, 22, "opening_setting", "p42 two stage should be checked", <<>>))
         ELSE Ok(add_pass(r, 22))
    ELSE Ok(add_pass(r, 22))

\* the calls of validate_all, in the order of the source
SysSteps == <<"1", "2", "3", "4", "5", "6", "7", "8", "9", "10", "11", "12", "13_to_16",
              "17", "18", "19", "20", "21", "22">>

SysStep(name, r, A, I) ==
    CASE name = "1" -> validate_item_1(r, A, I)
      [] name = "2" -> validate_item_2(r, A, I)
      [] name = "3" -> validate_item_3(r, A, I)
      [] name = "4" -> validate_item_4(r, A, I)
      [] name = "5" -> validate_item_5(r, A, I)
      [] name = "6" -> validate_item_6(r, A, I)
      [] name = "7" -> validate_item_7(r, A, I)
      [] name = "8" -> validate_item_8(r, A, I)
      [] name = "9" -> validate_item_9(r, A, I)
      [] name = "10" -> validate_item_10(r, A, I)
      [] name = "11" -> validate_item_11(r, A, I)
      [] name = "12" -> validate_item_12(r, A, I)
      [] name = "13_to_16" -> validate_items_13_to_16(r, A, I)
      [] name = "17" -> validate_item_17(r, A, I)
      [] name = "18" -> validate_item_18(r, A, I)
      [] name = "19" -> validate_item_19(r, A, I)
      [] name = "20" -> validate_item_20_v21(r, A, I)
      [] name = "21" -> validate_item_21_v21(r, A, I)
      [] name = "22" -> validate_item_22(r, A, I)

\* run the steps from the k-th on; an exception ends the run
RECURSIVE SysRun(_, _, _, _, _)
SysRun(steps, k, st, A, I) ==
    IF k > Len(steps) \/ st.exc # "none" THEN st
    ELSE SysRun(steps, k + 1, SysStep(steps[k], st.res, A, I), A, I)

\* the statistics validate_all writes before it returns
UpdateStatistics(r) ==
    [r EXCEPT !.n_pass = Len(r.passed),
              !.n_fail = Len(r.failed),
              !.verdict = IF Len(r.failed) = 0 THEN "pass" ELSE "fail"]

\* validate_all on a validator whose validation_results is r
validate_all(r, A, I) ==
    LET st == SysRun(SysSteps, 1, Ok(r), A, I)
    IN  IF st.exc # "none" THEN st ELSE Ok(UpdateStatistics(st.res))

\* a summary whose risk is high from five failures on
SummaryHighFromFive(rule_result) ==
    [rule_verdict |-> rule_result.verdict,
     pass_rate |-> <<rule_result.n_pass, rule_result.total>>,
     problems |-> rule_result.n_fail,
     risk |-> IF rule_result.n_fail >= 5 THEN "high"
              ELSE IF rule_result.n_fail >= 1 THEN "medium" ELSE "low",
     final |-> IF rule_result.n_fail = 0 THEN "pass"
               ELSE IF rule_result.n_fail <= 2 THEN "conditional_pass" ELSE "fail",
     action |-> IF rule_result.n_fail = 0 THEN "publish"
                ELSE IF rule_result.n_fail <= 2 THEN "fix_then_publish" ELSE "fix_and_audit_again"]

\* TenderAuditSystem.generate_summary; risk = 風險評估, final = 最終判定, action = 建議行動
\* (the keys copied from the optional AI validation are left out)
generate_summary(rule_result) ==
    [rule_verdict |-> rule_result.verdict,
     pass_rate |-> <<rule_result.n_pass, rule_result.total>>,
     problems |-> rule_result.n_fail,
     risk |-> IF rule_result.n_fail >= 3 THEN "high"
              ELSE IF rule_result.n_fail >= 1 THEN "medium" ELSE "low",
     final |-> IF rule_result.n_fail = 0 THEN "pass"
               ELSE IF rule_result.n_fail <= 2 THEN "conditional_pass" ELSE "fail",
     action |-> IF rule_result.n_fail = 0 THEN "publish"
                ELSE IF rule_result.n_fail <= 2 THEN "fix_then_publish" ELSE "fix_and_audit_again"]
-----------------------------------------------------------------------------
(* tender_compliance_validator.py: TenderComplianceValidator (總項次 23).   *)

v1_add_error(r, item_num, error_type, description, values) ==
    [r EXCEPT !.failed = Append(@, item_num),
              !.errors = Append(@, [item |-> item_num, type |-> error_type,
                                    desc |-> description, vals |-> values])]

v1_add_pass(r, item_num) == [r EXCEPT !.passed = Append(@, item_num)]

v1_validate_item_1(r, A, I) ==
    IF A.case_no = MissingText \/ I.case_no = MissingText THEN Raise(r, "KeyError")
    ELSE IF A.case_no # I.case_no
    THEN Ok(v1_add_error(r, 1, "case_no_mismatch", "ann:{} vs ins:{}",
                         <<ShowText(A.case_no), ShowText(I.case_no)>>))
    ELSE IF A.case_name = MissingText \/ I.object_name = MissingText THEN Raise(r, "KeyError")
    ELSE IF A.case_name # I.object_name
    THEN Ok(v1_add_error(r, 1, "case_name_mismatch", "ann:{} vs ins:{}",
                         <<ShowText(A.case_name), ShowText(I.object_name)>>))
    ELSE Ok(v1_add_pass(r, 1))

v1_validate_item_2(r, A, I) ==
    IF Contains("kw_open_quotation", Get(A, "tender_method", ""))
    THEN LET amt == GetAmt(A, "amount")
         IN  IF amt.t # "int" THEN Raise(r, "TypeError")
             ELSE LET errors == Item2Errors(A, I, amt)
                  IN  IF errors # <<>>
                      THEN Ok(v1_add_error(r, 2, "open_quotation_setting", "{errors joined}", errors))
                      ELSE Ok(v1_add_pass(r, 2))
    ELSE Ok(r)

v1_validate_item_3(r, A, I) ==
    IF Contains("kw_open_quotation", Get(A, "tender_method", ""))
    THEN IF I.p5_tenth # "checked"
         THEN Ok(v1_add_error(r, 3, "instructions_setting", "p5 should be checked", <<>>))
         ELSE Ok(v1_add_pass(r, 3))
    ELSE Ok(r)

v1_validate_item_4(r, A, I) ==
    IF A.award_method = "lowest"
    THEN IF I.p59_lowest # "checked" \/ I.p59_non64 # "checked"
         THEN Ok(v1_add_error(r, 4, "lowest_bid_setting", "p59 options should be checked", <<>>))
         ELSE Ok(v1_add_pass(r, 4))
    ELSE Ok(r)

v1_validate_item_5(r, A, I) ==
    IF A.reserve_price = "yes"
    THEN IF I.p6_reserve # "checked"
         THEN Ok(v1_add_error(r, 5, "reserve_price_setting", "p6 should be checked", <<>>))
         ELSE Ok(v1_add_pass(r, 5))
    ELSE Ok(r)

v1_validate_item_6(r, A, I) ==
    IF A.multiple_award = "no" THEN Ok(v1_add_pass(r, 6)) ELSE Ok(r)

v1_validate_item_7(r, A, I) ==
    IF A.art64_2 = "no"
    THEN IF I.p59_non64 # "checked"
         THEN Ok(v1_add_error(r, 7, "art64_2_setting", "p59 non-64-2 should be checked", <<>>))
         ELSE Ok(v1_add_pass(r, 7))
    ELSE Ok(r)

v1_validate_item_8(r, A, I) == Ok(v1_add_pass(r, 8))

v1_validate_item_9(r, A, I) ==
    IF A.treaty = "no"
    THEN IF I.p8_treaty = "checked"
         THEN Ok(v1_add_error(r, 9, "treaty_setting", "p8 treaty should not be checked", <<>>))
         ELSE Ok(v1_add_pass(r, 9))
    ELSE Ok(r)

v1_validate_item_10(r, A, I) ==
    IF A.sensitive = "yes"
    THEN LET errors == (IF I.p13_sensitive # "checked" THEN <<"p13_sensitive_should_be_checked">> ELSE <<>>)
                       \o (IF I.p8_ban_mainland # "checked" THEN <<"p8_ban_mainland_should_be_checked">> ELSE <<>>)
         IN  IF errors # <<>>
             THEN Ok(v1_add_error(r, 10, "sensitive_setting", "{errors joined}", errors))
             ELSE Ok(v1_add_pass(r, 10))
    ELSE Ok(r)

v1_validate_item_11(r, A, I) ==
    IF A.national_security = "yes"
    THEN LET errors == (IF I.p13_security # "checked" THEN <<"p13_security_should_be_checked">> ELSE <<>>)
                       \o (IF I.p8_ban_mainland # "checked" THEN <<"p8_ban_mainland_should_be_checked">> ELSE <<>>)
         IN  IF errors # <<>>
             THEN Ok(v1_add_error(r, 11, "national_security_setting", "{errors joined}", errors))
             ELSE Ok(v1_add_pass(r, 11))
    ELSE Ok(r)

v1_validate_item_12(r, A, I) ==
    IF A.option = "yes"
    THEN IF I.p7_keep # "checked"
         THEN Ok(v1_add_error(r, 12, "option_setting", "p7 keep should be checked", <<>>))
         ELSE IF I.p7_nokeep = "checked"
         THEN Ok(v1_add_error(r, 12, "option_contradiction", "keep and no-keep both checked", <<>>))
         ELSE Ok(v1_add_pass(r, 12))
    ELSE IF A.option = "none"
    THEN IF I.p7_nokeep # "checked"
         THEN Ok(v1_add_error(r, 12, "option_setting", "p7 no-keep should be checked", <<>>))
         ELSE Ok(v1_add_pass(r, 12))
    ELSE Ok(r)

v1_validate_item_13(r, A, I) ==
    IF A.special = "no"
    THEN IF I.p4_nonspecial # "checked"
         THEN v1_add_error(r, 13, "special_setting", "p4 should be checked", <<>>)
         ELSE v1_add_pass(r, 13)
    ELSE r

v1_validate_item_14(r, A, I) ==
    IF A.turnkey = "no"
    THEN IF I.p35_nonturnkey # "checked"
         THEN v1_add_error(r, 14, "turnkey_setting", "p35 should be checked", <<>>)
         ELSE v1_add_pass(r, 14)
    ELSE r

v1_validate_item_15(r, A, I) ==
    IF A.negotiation = "no"
    THEN IF I.p54_noneg # "checked"
         THEN v1_add_error(r, 15, "negotiation_setting", "p54 should be checked", <<>>)
         ELSE v1_add_pass(r, 15)
    ELSE r

v1_validate_item_16(r, A, I) ==
    IF A.e_collect = "yes"
    THEN IF I.p9_ecollect # "checked"
         THEN v1_add_error(r, 16, "e_collect_setting", "p9 should be checked", <<>>)
         ELSE v1_add_pass(r, 16)
    ELSE r

v1_validate_items_13_to_16(r, A, I) ==
    Ok(v1_validate_item_16(v1_validate_item_15(v1_validate_item_14(
           v1_validate_item_13(r, A, I), A, I), A, I), A, I))

v1_validate_item_17(r, A, I) ==
    LET ann_bond == GetAmt(A, "bond")
        ins_bond == GetAmt(I, "bond_amount")
    IN  IF ann_bond # ins_bond
        THEN Ok(v1_add_error(r, 17, "bond_mismatch", "ann:{} vs ins:{}",
                             <<ShowAmt(ann_bond), ShowAmt(ins_bond)>>))
        ELSE IF ann_bond.t # "int" THEN Raise(r, "TypeError")
        ELSE IF ann_bond.n > 0
        THEN IF I.p19_fixed # "checked"
             THEN Ok(v1_add_error(r, 17, "bond_setting", "with a bond p19 fixed amount should be checked", <<>>))
             ELSE Ok(v1_add_pass(r, 17))
        ELSE IF I.p19_none # "checked"
             THEN Ok(v1_add_error(r, 17, "bond_setting", "without a bond p19 none should be checked", <<>>))
             ELSE Ok(v1_add_pass(r, 17))

v1_validate_item_18(r, A, I) ==
    IF A.disabled_priority = "yes"
    THEN IF I.p59_disabled # "checked"
         THEN Ok(v1_add_error(r, 18, "disabled_priority_setting", "p59 disabled priority should be checked", <<>>))
         ELSE Ok(v1_add_pass(r, 18))
    ELSE Ok(v1_add_pass(r, 18))

v1_validate_item_20(r, A, I) ==
    IF A.foreign = "allow"
    THEN IF I.p8_allow # "checked"
         THEN Ok(v1_add_error(r, 20, "foreign_setting", "p8 allow should be checked", <<>>))
         ELSE Ok(v1_add_pass(r, 20))
    ELSE IF A.foreign = "deny"
    THEN IF I.p8_deny # "checked"
         THEN Ok(v1_add_error(r, 20, "foreign_setting", "p8 deny should be checked", <<>>))
         ELSE Ok(v1_add_pass(r, 20))
    ELSE Ok(r)

v1_validate_item_21(r, A, I) ==
    IF A.sme_only = "yes"
    THEN IF I.p8_deny # "checked"
         THEN Ok(v1_add_error(r, 21, "sme_setting", "sme only: p8 deny should be checked", <<>>))
         ELSE Ok(v1_add_pass(r, 21))
    ELSE Ok(v1_add_pass(r, 21))

v1_validate_item_23(r, A, I) ==
    IF Contains("kw_not_staged", Get(A, "opening", ""))
    THEN IF I.p42_single # "checked"
         THEN Ok(v1_add_error(r, 23, "opening_setting", "p42 single stage should be checked", <<>>))
         ELSE IF I.p42_two = "checked"
         THEN Ok(v1_add_error(r, 23, "opening_contradiction", "both opening methods checked", <<>>))
         ELSE Ok(v1_add_pass(r, 23))
    ELSE IF Contains("kw_two_stage", Get(A, "opening", ""))
    THEN IF I.p42_two # "checked"
         THEN Ok(v1_add_error(r, 23, "opening_setting", "p42 two stage should be checked", <<>>))
         ELSE Ok(v1_add_pass(r, 23))
    ELSE Ok(r)

V1Steps == <<"1", "2", "3", "4", "5", "6", "7", "8", "9", "10", "11", "12", "13_to_16",
             "17", "18", "20", "21", "23">>

V1Step(name, r, A, I) ==
    CASE name = "1" -> v1_validate_item_1(r, A, I)
      [] name = "2" -> v1_validate_item_2(r, A, I)
      [] name = "3" -> v1_validate_item_3(r, A, I)
      [] name = "4" -> v1_validate_item_4(r, A, I)
      [] name = "5" -> v1_validate_item_5(r, A, I)
      [] name = "6" -> v1_validate_item_6(r, A, I)
      [] name = "7" -> v1_validate_item_7(r, A, I)
      [] name = "8" -> v1_validate_item_8(r, A, I)
      [] name = "9" -> v1_validate_item_9(r, A, I)
      [] name = "10" -> v1_validate_item_10(r, A, I)
      [] name = "11" -> v1_validate_item_11(r, A, I)
      [] name = "12" -> v1_validate_item_12(r, A, I)
      [] name = "13_to_16" -> v1_validate_items_13_to_16(r, A, I)
      [] name = "17" -> v1_validate_item_17(r, A, I)
      [] name = "18" -> v1_validate_item_18(r, A, I)
      [] name = "20" -> v1_validate_item_20(r, A, I)
      [] name = "21" -> v1_validate_item_21(r, A, I)
      [] name = "23" -> v1_validate_item_23(r, A, I)

RECURSIVE V1Run(_, _, _, _, _)
V1Run(steps, k, st, A, I) ==
    IF k > Len(steps) \/ st.exc # "none" THEN st
    ELSE V1Run(steps, k + 1, V1Step(steps[k], st.res, A, I), A, I)

v1_validate_all(r, A, I) ==
    LET st == V1Run(V1Steps, 1, Ok(r), A, I)
    IN  IF st.exc # "none" THEN st ELSE Ok(UpdateStatistics(st.res))
-----------------------------------------------------------------------------
(* tender_audit_system_v2.1.py: SmartTextMatcher, SmartComplianceValidator *)
(* and the executive summary of IntelligentAuditSystem.                    *)
(* Line 558 of the file spells `for key in` and the dict's name without a  *)
(* space between them, which Python rejects when it compiles the file.     *)
(* The model reads the line as the loop over the dict's keys it evidently  *)
(* spells, so that the checks of this file have a behaviour to model.      *)

\* ValidationStatus
PASS == "PASS"
FAIL == "FAIL"
WARNING == "WARNING"
SKIP == "SKIP"
AUTO_FIXED == "AUTO_FIXED"
ValidationStatus == {PASS, FAIL, WARNING, SKIP, AUTO_FIXED}

\* ValidationItem: item_number, status, description (a tag for the text) and
\* the values the description or expected_value / actual_value quote
ValidationItem(item_number, status, description, values) ==
    [num |-> item_number, status |-> status, desc |-> description, vals |-> values]

\* a comparison that knows no trailing-"A" rule: equal, or a ratio above 0.9
RatioOnlySimilar(case1, case2) ==
    LET c1 == Upper(Strip(case1))
        c2 == Upper(Strip(case2))
    IN  IF c1 = c2 THEN <<TRUE, <<1, 1>> >>
        ELSE <<RatioGT(similarity_ratio(c1, c2), 9, 10), similarity_ratio(c1, c2)>>

\* SmartTextMatcher.is_case_number_similar: <<similar, confidence>>, the
\* confidence as a fraction (0.95 = 19/20)
is_case_number_similar(case1, case2) ==
    LET c1 == Upper(Strip(case1))
        c2 == Upper(Strip(case2))
        diff == IF Len(c1) > Len(c2) THEN Len(c1) - Len(c2) ELSE Len(c2) - Len(c1)
    IN  IF c1 = c2 THEN <<TRUE, <<1, 1>> >>
        ELSE IF (StartsWith(c1, c2) \/ StartsWith(c2, c1))
                /\ diff = 1 /\ (EndsWithChar(c1, "A") \/ EndsWithChar(c2, "A"))
        THEN <<TRUE, <<19, 20>> >>
        ELSE LET similarity == similarity_ratio(c1, c2)
             IN  <<RatioGT(similarity, 9, 10), similarity>>

\* `sub in str(公告)`: the text of the whole announcement dict holds sub when a
\* key or a value holds it.  "kw_reserve_key" = 訂有底價 is a key of the dict;
\* "kw_non_multiple" = 非複數 is in no key and in no value the model uses.
AnnouncementTextHas(sub, A) ==
    CASE sub = "kw_reserve_key" -> A.reserve_price # Missing
      [] OTHER -> FALSE

\* `sub in str(須知)`: "64" is in the key 第59點非64條之2; "kw_no" = 否 and
\* "kw_lease" = 租購 are in no key and in no value the model uses.
InstructionsTextHas(sub, I) ==
    CASE sub = "64" -> I.p59_non64 # Missing
      [] OTHER -> FALSE

_validate_item_1_smart(A, I) ==
    LET ann_no == GetText(A, "case_no")
        ins_no == GetText(I, "case_no")
        sim == is_case_number_similar(ann_no, ins_no)
        case_similar == sim[1]
        case_confidence == sim[2]
        shown == <<ShowText(A.case_no), ShowText(I.case_no)>>
    IN  IF ~case_similar
        THEN ValidationItem(1, FAIL, "case_no_mismatch", shown)
        ELSE IF ~RatioIsOne(case_confidence)
        THEN ValidationItem(1, WARNING, "case_no_slight_difference", shown)
        ELSE LET name_similarity == similarity_ratio(GetText(A, "case_name"), GetText(I, "object_name"))
             IN  IF RatioLT(name_similarity, 8, 10)
                 THEN ValidationItem(1, WARNING, "case_name_low_similarity", shown)
                 ELSE ValidationItem(1, PASS, "case_no_and_name_identical", shown)

\* the amount after isinstance(str) -> int(re.sub('[^0-9]', '', s)), 0 when that raises
SmartAmount(v) == IF v.t = "int" THEN v.n ELSE IF v.t = "str" /\ v.n >= 0 THEN v.n ELSE 0

_validate_item_2_smart(A, I) ==
    IF Contains("kw_open_quotation", Get(A, "tender_method", ""))
    THEN LET amt == SmartAmount(GetAmt(A, "amount"))
             near == (140000 <= amt /\ amt < 150000) \/ (1500000 <= amt /\ amt < 1600000)
             errors ==
                 (IF ~InQuotationRange(amt) /\ ~near THEN <<"amount_out_of_range">> ELSE <<>>)
                 \o (IF A.amount_band # "below_threshold" THEN <<"band_should_be_below_threshold">> ELSE <<>>)
                 \o (IF A.legal_basis # "art49" /\ ~Contains("49", Get(A, "legal_basis", ""))
                     THEN <<"legal_basis_should_be_art49">> ELSE <<>>)
                 \o (IF I.p3_tenth # "checked" THEN <<"p3_should_be_checked">> ELSE <<>>)
             warnings ==
                 (IF ~InQuotationRange(amt) /\ near THEN <<"amount_near_bound">> ELSE <<>>)
                 \o (IF A.legal_basis # "art49" /\ Contains("49", Get(A, "legal_basis", ""))
                     THEN <<"legal_basis_other_wording">> ELSE <<>>)
         IN  IF errors # <<>> THEN ValidationItem(2, FAIL, "{errors joined}", errors)
             ELSE IF warnings # <<>> THEN ValidationItem(2, WARNING, "{warnings joined}", warnings)
             ELSE ValidationItem(2, PASS, "open_quotation_correct", <<>>)
    ELSE ValidationItem(2, SKIP, "not_open_quotation", <<>>)

_validate_item_3_smart(A, I) ==
    LET method == Get(A, "tender_method", "")
        is_open_quotation == Contains("kw_open_get", method) \/ Contains("kw_quotation", method)
                             \/ Contains("kw_proposal", method)
    IN  IF is_open_quotation
        THEN IF I.p5_tenth # "checked"
             THEN IF I.p3_tenth = "checked"
                  THEN ValidationItem(3, AUTO_FIXED, "p3_checked_instead", <<>>)
                  ELSE ValidationItem(3, FAIL, "p5_should_be_checked", <<>>)
             ELSE ValidationItem(3, PASS, "instructions_setting_correct", <<>>)
        ELSE ValidationItem(3, SKIP, "not_open_quotation", <<>>)

_validate_item_4_smart(A, I) ==
    LET award == Get(A, "award_method", "")
        is_lowest_bid == Contains("kw_lowest", award) \/ Contains("lowest", award)
                         \/ Contains("kw_low_bid", award)
        checks_passed == (IF I.p59_lowest = "checked" THEN 1 ELSE 0)
                         + (IF I.p59_non64 = "checked" THEN 1 ELSE 0)
    IN  IF is_lowest_bid
        THEN IF checks_passed = 2 THEN ValidationItem(4, PASS, "lowest_bid_correct", <<>>)
             ELSE IF checks_passed = 1 THEN ValidationItem(4, WARNING, "lowest_bid_partly_correct", <<>>)
             ELSE ValidationItem(4, FAIL, "p59_options_should_be_checked", <<>>)
        ELSE ValidationItem(4, SKIP, "not_lowest_bid", <<award>>)

_validate_item_5_smart(A, I) ==
    LET has_reserve_price == Get(A, "reserve_price", "") = "yes"
                             \/ AnnouncementTextHas("kw_reserve_key", A)
        \* a key of 須知 with 底價 in it whose value holds 已勾選: only 第6點訂底價
        other_reserve_checked == I.p6_reserve = "checked"
    IN  IF has_reserve_price
        THEN IF I.p6_reserve # "checked"
             THEN IF other_reserve_checked
                  THEN ValidationItem(5, AUTO_FIXED, "reserve_checkbox_found", <<>>)
                  ELSE ValidationItem(5, FAIL, "p6_should_be_checked", <<>>)
             ELSE ValidationItem(5, PASS, "reserve_price_correct", <<>>)
        ELSE ValidationItem(5, SKIP, "no_reserve_price", <<>>)

_validate_item_6_smart(A, I) ==
    LET multiple == Get(A, "multiple_award", "")
    IN  IF multiple = "no" \/ AnnouncementTextHas("kw_non_multiple", A)
        THEN ValidationItem(6, PASS, "non_multiple_award", <<>>)
        ELSE IF multiple = "yes"
        THEN ValidationItem(6, FAIL, "should_be_non_multiple", <<>>)
        ELSE ValidationItem(6, WARNING, "multiple_award_unclear", <<>>)

_validate_item_7_smart(A, I) ==
    IF Get(A, "art64_2", "") = "no"
    THEN IF I.p59_non64 # "checked"
         THEN IF InstructionsTextHas("64", I) /\ InstructionsTextHas("kw_no", I)
              THEN ValidationItem(7, WARNING, "art64_2_other_format", <<>>)
              ELSE ValidationItem(7, FAIL, "p59_non64_should_be_checked", <<>>)
         ELSE ValidationItem(7, PASS, "art64_2_correct", <<>>)
    ELSE ValidationItem(7, SKIP, "under_art64_2", <<>>)

\* the first category of category_mapping with a keyword in the text, "" when none
BestCategory(text) ==
    IF \E k \in {"kw_goods", "kw_items", "kw_equipment", "kw_material"} : Contains(k, text)
    THEN "goods"
    ELSE IF \E k \in {"kw_service", "kw_service2", "kw_entrust", "kw_contract"} : Contains(k, text)
    THEN "service"
    ELSE IF \E k \in {"kw_works", "kw_build", "kw_construct", "kw_construction"} : Contains(k, text)
    THEN "works"
    ELSE IF \E k \in {"kw_buy", "kw_custom", "kw_ordered", "kw_manufacture"} : Contains(k, text)
    THEN "buy_custom"
    ELSE ""

_validate_item_8_smart(A, I) ==
    LET category == Get(A, "category", "")
        best_match == BestCategory(category)
    IN  IF best_match # ""
        THEN IF Contains("kw_buy_custom", category) /\ InstructionsTextHas("kw_lease", I)
             THEN ValidationItem(8, WARNING, "category_may_differ", <<>>)
             ELSE ValidationItem(8, PASS, "category_is", <<best_match>>)
        ELSE ValidationItem(8, WARNING, "category_undetermined", <<category>>)

_validate_item_9_smart(A, I) ==
    LET treaty == Get(A, "treaty", "")
    IN  IF treaty = "no"
        THEN IF I.p8_treaty = "checked"
             THEN ValidationItem(9, FAIL, "no_treaty_but_checked", <<>>)
             ELSE ValidationItem(9, PASS, "treaty_correct", <<>>)
        ELSE IF treaty = "yes"
        THEN IF I.p8_treaty # "checked"
             THEN ValidationItem(9, FAIL, "treaty_but_unchecked", <<>>)
             ELSE ValidationItem(9, PASS, "treaty_correct", <<>>)
        ELSE ValidationItem(9, WARNING, "treaty_unclear", <<>>)

_validate_item_10_smart(A, I) ==
    IF Get(A, "sensitive", "") = "yes"
    THEN LET failed_checks ==
                 (IF I.p13_sensitive # "checked" THEN <<"sensitive_mark">> ELSE <<>>)
                 \o (IF I.p8_ban_mainland # "checked" THEN <<"ban_mainland">> ELSE <<>>)
         IN  IF failed_checks = <<>> THEN ValidationItem(10, PASS, "sensitive_correct", <<>>)
             ELSE IF Len(failed_checks) = 1
             THEN ValidationItem(10, WARNING, "sensitive_partly_missing", failed_checks)
             ELSE ValidationItem(10, FAIL, "sensitive_setting_wrong", <<>>)
    ELSE ValidationItem(10, SKIP, "not_sensitive", <<>>)

_validate_item_11_smart(A, I) ==
    IF Get(A, "national_security", "") = "yes"
    THEN LET failed_checks ==
                 (IF I.p13_security # "checked" THEN <<"security_mark">> ELSE <<>>)
                 \o (IF I.p8_ban_mainland # "checked" THEN <<"ban_mainland">> ELSE <<>>)
         IN  IF failed_checks = <<>> THEN ValidationItem(11, PASS, "national_security_correct", <<>>)
             ELSE ValidationItem(11, FAIL, "national_security_missing", failed_checks)
    ELSE ValidationItem(11, SKIP, "not_national_security", <<>>)

_validate_item_12_smart(A, I) ==
    LET option == Get(A, "option", "")
    IN  IF option = "yes"
        THEN IF I.p7_keep # "checked"
             THEN ValidationItem(12, FAIL, "option_but_keep_unchecked", <<>>)
             ELSE ValidationItem(12, PASS, "option_correct", <<>>)
        ELSE IF option = "none" \/ option = "no"
        THEN IF I.p7_nokeep # "checked"
             THEN IF I.p7_keep # "checked"
                  THEN ValidationItem(12, WARNING, "option_not_clearly_checked", <<>>)
                  ELSE ValidationItem(12, FAIL, "no_option_but_keep_checked", <<>>)
             ELSE ValidationItem(12, PASS, "no_option_correct", <<>>)
        ELSE ValidationItem(12, WARNING, "option_unclear", <<>>)
\* _validate_items_13_to_16_smart appends four items
_validate_items_13_to_16_smart(A, I) ==
    << IF A.special = "no"
       THEN IF I.p4_nonspecial # "checked"
            THEN ValidationItem(13, FAIL, "non_special_but_unchecked", <<>>)
            ELSE ValidationItem(13, PASS, "special_correct", <<>>)
       ELSE ValidationItem(13, SKIP, "special_procurement", <<>>),
       IF A.turnkey = "no"
       THEN IF I.p35_nonturnkey # "checked"
            THEN ValidationItem(14, WARNING, "non_turnkey_but_unchecked", <<>>)
            ELSE ValidationItem(14, PASS, "turnkey_correct", <<>>)
       ELSE ValidationItem(14, SKIP, "turnkey", <<>>),
       IF A.negotiation = "no"
       THEN IF I.p54_noneg # "checked"
            THEN ValidationItem(15, WARNING, "no_negotiation_but_unchecked", <<>>)
            ELSE ValidationItem(15, PASS, "negotiation_correct", <<>>)
       ELSE ValidationItem(15, SKIP, "negotiation", <<>>),
       IF A.e_collect = "yes"
       THEN IF I.p9_ecollect # "checked"
            THEN ValidationItem(16, FAIL, "e_collect_but_unchecked", <<>>)
            ELSE ValidationItem(16, PASS, "e_collect_correct", <<>>)
       ELSE ValidationItem(16, SKIP, "no_e_collect", <<>>) >>

\* a parse that reads no text: an int as it is, 0 for everything else
ParseIntOnly(v) == IF v.t = "int" THEN v.n ELSE 0

\* smart_parse_amount: an int as it is, a str by its digits, 0 without digits
smart_parse_amount(v) == IF v.t = "int" THEN v.n ELSE IF v.t = "str" /\ v.n >= 0 THEN v.n ELSE 0

Abs(x) == IF x < 0 THEN -x ELSE x
Max2(x, y) == IF x > y THEN x ELSE y

\* abs(a - b) / max(a, b) < 0.05 on positive ints
WithinFivePercent(a, b) == Abs(a - b) * 100 < 5 * Max2(a, b)

_validate_item_17_smart(A, I) ==
    LET ann_bond == smart_parse_amount(GetAmt(A, "bond"))
        ins_bond == smart_parse_amount(GetAmt(I, "bond_amount"))
    IN  IF ann_bond # ins_bond
        THEN IF ann_bond > 0 /\ ins_bond > 0
             THEN IF WithinFivePercent(ann_bond, ins_bond)
                  THEN ValidationItem(17, WARNING, "bond_small_difference", <<>>)
                  ELSE ValidationItem(17, FAIL, "bond_mismatch", <<ann_bond, ins_bond>>)
             ELSE ValidationItem(17, FAIL, "bond_mismatch", <<ann_bond, ins_bond>>)
        ELSE IF ann_bond > 0
        THEN IF I.p19_fixed # "checked"
             THEN ValidationItem(17, WARNING, "bond_checkbox_may_be_wrong", <<>>)
             ELSE ValidationItem(17, PASS, "bond_equal", <<ann_bond>>)
        ELSE ValidationItem(17, PASS, "no_bond", <<>>)

_validate_item_18_smart(A, I) ==
    IF A.disabled_priority = "yes"
    THEN IF I.p59_disabled # "checked"
         THEN ValidationItem(18, FAIL, "disabled_priority_but_unchecked", <<>>)
         ELSE ValidationItem(18, PASS, "disabled_priority_correct", <<>>)
    ELSE ValidationItem(18, SKIP, "not_disabled_priority", <<>>)

_validate_item_20_smart(A, I) ==
    LET foreign == Get(A, "foreign", "")
    IN  IF \E k \in {"kw_may", "kw_may_participate", "kw_can"} : Contains(k, foreign)
        THEN IF I.p8_allow # "checked"
             THEN ValidationItem(20, FAIL, "foreign_allowed_but_unchecked", <<>>)
             ELSE ValidationItem(20, PASS, "foreign_correct", <<>>)
        ELSE IF \E k \in {"kw_may_not", "kw_shall_not", "kw_forbid"} : Contains(k, foreign)
        THEN IF I.p8_deny # "checked"
             THEN ValidationItem(20, FAIL, "foreign_denied_but_wrong", <<>>)
             ELSE ValidationItem(20, PASS, "foreign_limit_correct", <<>>)
        ELSE ValidationItem(20, WARNING, "foreign_unclear", <<foreign>>)

_validate_item_21_smart(A, I) ==
    IF A.sme_only = "yes"
    THEN IF I.p8_deny # "checked"
         THEN ValidationItem(21, WARNING, "sme_setting_incomplete", <<>>)
         ELSE ValidationItem(21, PASS, "sme_correct", <<>>)
    ELSE ValidationItem(21, SKIP, "not_sme_only", <<>>)

_validate_item_23_smart(A, I) ==
    LET opening == Get(A, "opening", "")
    IN  IF Contains("kw_not_staged", opening)
        THEN IF I.p42_single # "checked"
             THEN ValidationItem(23, FAIL, "single_stage_but_unchecked", <<>>)
             ELSE IF I.p42_two = "checked"
             THEN ValidationItem(23, FAIL, "opening_contradiction", <<>>)
             ELSE ValidationItem(23, PASS, "single_stage_correct", <<>>)
        ELSE IF Contains("kw_staged", opening) \/ Contains("kw_two", opening)
        THEN IF I.p42_two # "checked"
             THEN ValidationItem(23, FAIL, "staged_but_unchecked", <<>>)
             ELSE ValidationItem(23, PASS, "staged_correct", <<>>)
        ELSE ValidationItem(23, WARNING, "opening_unclear", <<opening>>)

\* the validation_items list validate_all_smart builds, from empty
SmartItems(A, I) ==
    << _validate_item_1_smart(A, I), _validate_item_2_smart(A, I), _validate_item_3_smart(A, I),
       _validate_item_4_smart(A, I), _validate_item_5_smart(A, I), _validate_item_6_smart(A, I),
       _validate_item_7_smart(A, I), _validate_item_8_smart(A, I), _validate_item_9_smart(A, I),
       _validate_item_10_smart(A, I), _validate_item_11_smart(A, I), _validate_item_12_smart(A, I) >>
    \o _validate_items_13_to_16_smart(A, I)
    \o << _validate_item_17_smart(A, I), _validate_item_18_smart(A, I), _validate_item_20_smart(A, I),
          _validate_item_21_smart(A, I), _validate_item_23_smart(A, I) >>

WithStatus(items, status) == SelectSeq(items, LAMBDA item : item.status = status)

\* the report of validate_all_smart (智能分析 and 詳細結果; time stamp, version
\* and 總體信心度 are left out)
SmartReport(items) ==
    LET passed == WithStatus(items, PASS)
        failed == WithStatus(items, FAIL)
        warnings == WithStatus(items, WARNING)
        auto_fixed == WithStatus(items, AUTO_FIXED)
    IN  [verdict |-> IF Len(failed) = 0 THEN "pass" ELSE "fail",
         total |-> 23,
         n_pass |-> Len(passed), n_fail |-> Len(failed),
         n_warn |-> Len(warnings), n_fixed |-> Len(auto_fixed),
         passed_items |-> passed, failed_items |-> failed,
         warning_items |-> warnings, auto_fixed_items |-> auto_fixed]

\* IntelligentAuditSystem._generate_executive_summary (risk score and
\* confidence texts are left out)
_generate_executive_summary(validation_result) ==
    [final |-> validation_result.verdict,
     risk |-> IF validation_result.n_fail = 0 THEN "low"
              ELSE IF validation_result.n_fail <= 2 THEN "medium" ELSE "high",
     action |-> IF validation_result.n_fail = 0 THEN "publish"
                ELSE IF validation_result.n_fail <= 2 THEN "fix_then_publish" ELSE "major_fix",
     pass_rate |-> <<validation_result.n_pass, validation_result.total>>,
     problems |-> [severe |-> validation_result.n_fail, warned |-> validation_result.n_warn,
                   fixed |-> validation_result.n_fixed]]
-----------------------------------------------------------------------------
(* The 23-item checker: Complete23ItemChecker.  A document text is the     *)
(* record of what the checks' searches find in it: `x in text` is the      *)
(* BOOLEAN field for the phrase x, a regular-expression capture is the     *)
(* field holding the captured text.                                        *)
(*   announcement phrases   open_quotation = 公開取得報價或企劃書招標,     *)
(*     lowest = 最低標, buy_custom = 買受，定製,                           *)
(*     treaty_no = 是否適用條約或協定之採購：否,                           *)
(*     sensitive_yes / sensitive_no = 本採購是否屬「具敏感性或國安(含資安) *)
(*     疑慮之業務範疇」採購：是 / 否, security_yes / security_no =         *)
(*     本採購是否屬「涉及國家安全」採購：是 / 否,                          *)
(*     foreign_allow = 外國廠商：得參與採購, foreign_deny = 外國廠商：     *)
(*     不得參與, legal = 合法設立登記之廠商, business = 營業項目,          *)
(*     single_stage = 一次投標不分段開標                                   *)
(*   instructions phrases   range_two = ■(二)逾公告金額十分之一未達公告    *)
(*     金額, range_three = ■(三)公告金額以上未達查核金額,                  *)
(*     public_tender = ■(一)公開招標, quotation = 公開取得書面報價,        *)
(*     lowest = 最低標, lease = ■租購, checked_6 = ■具敏感性或國安,        *)
(*     checked_7 = ■涉及國家安全, deny_mainland = ■不允許 大陸地區廠商參與,*)
(*     deny_bid = ■不可參與投標, translation = ■應檢附經公證或認證之中文   *)
(*     譯本, translation_unchecked = □應檢附經公證或認證之中文譯本,        *)
(*     tax = ■4.納稅證明, credit = ■5.信用證明, other16 = ■(16)其他業類,   *)
(*     specific_business = one of ■(1) .. ■(15)                            *)

NotFound == "not_found"

IsDigit(c) == c \in {"0", "1", "2", "3", "4", "5", "6", "7", "8", "9"}

\* re.search(r'(C\d{2}A\d{5})', text) on a text that holds the one case number token
ExtractCase(token) ==
    IF token # MissingText /\ Len(token) >= 9
       /\ token[1] = "C" /\ IsDigit(token[2]) /\ IsDigit(token[3]) /\ token[4] = "A"
       /\ \A i \in 5..9 : IsDigit(token[i])
    THEN ToString(SubSeq(token, 1, 9))
    ELSE NotFound

\* one row of the result list
Result(num, status, risk, ann_value, ins_value, problem) ==
    [num |-> num, status |-> status, risk |-> risk,
     ann_value |-> ann_value, ins_value |-> ins_value, problem |-> problem]

check_item_1(ann, ins) ==
    LET ann_case == ExtractCase(ann.case_token)
        ins_case == ExtractCase(ins.case_token)
        case_match == ann_case = ins_case /\ ann_case # NotFound
        \* qty: the digits before 項 in the extracted name, NotFound without them
        name_match == IF ann.qty # NotFound /\ ins.qty # NotFound THEN ann.qty = ins.qty
                      ELSE ann.qty = NotFound /\ ins.qty = NotFound
        problem == IF ~case_match /\ ~name_match THEN "case_no_and_quantity"
                   ELSE IF ~case_match THEN "case_no_mismatch" ELSE "quantity"
    IN  IF case_match /\ name_match
        THEN Result(1, "pass", "high", ann_case, ins_case, "")
        ELSE Result(1, "fail", "high", ann_case, ins_case, problem)

check_item_2(ann, ins) ==
    LET amount == IF ann.amount = 0 THEN ann.budget ELSE ann.amount
        expected_range == IF 150000 <= amount /\ amount < 1500000 THEN "range_two"
                          ELSE IF amount >= 1500000 THEN "range_three" ELSE ""
        ins_range == IF ins.range_two THEN "range_two"
                     ELSE IF ins.range_three THEN "range_three" ELSE ""
    IN  IF ann.amount = 0
        THEN Result(2, "fail", "high", "blank", ins_range, "amount_blank")
        ELSE IF expected_range # "" /\ expected_range # ins_range
        THEN Result(2, "fail", "high", ToString(ann.amount), ins_range, "wrong_range")
        ELSE Result(2, "pass", "high", ToString(ann.amount), ins_range, "")

check_item_3(ann, ins) ==
    IF ann.open_quotation /\ ~ins.quotation /\ ins.public_tender
    THEN Result(3, "fail", "low", "open_quotation", "public_tender", "method_mismatch")
    ELSE Result(3, IF ins.quotation THEN "pass" ELSE "fail", "low",
                IF ann.open_quotation THEN "open_quotation" ELSE "unrecognised",
                IF ins.quotation THEN "checked_right" ELSE "checked_wrong", "")

check_item_4(ann, ins) ==
    Result(4, IF ann.lowest = ins.lowest THEN "pass" ELSE "fail", "low",
           IF ann.lowest THEN "lowest" ELSE "unrecognised",
           IF ins.lowest THEN "lowest" ELSE "unrecognised", "")

check_item_5(ann, ins) == Result(5, "pass", "high", "", "", "")
check_item_6(ann, ins) == Result(6, "pass", "medium", "", "", "")
check_item_7(ann, ins) == Result(7, "pass", "low", "", "", "")

check_item_8(ann, ins) ==
    LET ann_category == IF ann.buy_custom THEN "buy_comma_custom" ELSE "unrecognised"
        ins_category == IF ins.lease THEN "lease" ELSE "buycustom"
    IN  IF ann_category = "buy_comma_custom" /\ ins_category = "lease"
        THEN Result(8, "fail", "low", ann_category, ins_category, "category_mismatch")
        ELSE Result(8, IF ann_category = ins_category THEN "pass" ELSE "fail", "low",
                    ann_category, ins_category, "")

check_item_9(ann, ins) ==
    Result(9, "pass", "low", IF ann.treaty_no THEN "no" ELSE "unrecognised", "not_applicable", "")

check_item_10(ann, ins) ==
    IF ann.sensitive_no
    THEN IF ~ins.checked_6
         THEN Result(10, "pass", "low", "no", "item6_unchecked", "")
         ELSE Result(10, "fail", "high", "no", "item6_checked", "announcement_no_but_item6_checked")
    ELSE IF ann.sensitive_yes
    THEN IF ins.checked_6 /\ ins.deny_mainland
         THEN Result(10, "pass", "low", "yes", "set_right", "")
         ELSE Result(10, "fail", "high", "yes", "incomplete", "item6_or_mainland_missing")
    ELSE Result(10, "fail", "medium", "unclear", "undetermined", "sensitive_unclear")

check_item_11(ann, ins) ==
    IF ann.security_no
    THEN IF ~ins.checked_7
         THEN Result(11, "pass", "low", "no", "item7_unchecked", "")
         ELSE Result(11, "fail", "high", "no", "item7_checked", "announcement_no_but_item7_checked")
    ELSE IF ann.security_yes
    THEN IF ins.checked_7 /\ ins.deny_mainland
         THEN Result(11, "pass", "low", "yes", "set_right", "")
         ELSE Result(11, "fail", "high", "yes", "incomplete", "item7_or_mainland_missing")
    ELSE Result(11, "fail", "medium", "unclear", "undetermined", "security_unclear")

check_item_12(ann, ins) == Result(12, "pass", "low", "", "", "")
check_item_13(ann, ins) == Result(13, "pass", "high", "", "", "")
check_item_14(ann, ins) == Result(14, "pass", "low", "", "", "")
check_item_15(ann, ins) == Result(15, "pass", "low", "", "", "")
check_item_16(ann, ins) == Result(16, "pass", "low", "", "", "")

\* bond: the digits the pattern captures, NotFound when it does not match
check_item_17(ann, ins) ==
    IF ann.bond = "800" /\ ins.bond = "8000"
    THEN Result(17, "fail", "low", ann.bond, ins.bond, "bond_shown_incomplete")
    ELSE IF ann.bond = ins.bond /\ ann.bond # NotFound
    THEN Result(17, "pass", "low", ann.bond, ins.bond, "")
    ELSE Result(17, "fail", "low", ann.bond, ins.bond, "bond_mismatch_or_unrecognised")

check_item_18(ann, ins) == Result(18, "pass", "low", "", "", "")

check_item_19(ann, ins) ==
    LET ann_foreign == IF ann.foreign_allow THEN "may_participate" ELSE "may_not_participate"
        ins_foreign == IF ins.deny_bid THEN "cannot_bid" ELSE "can_bid"
    IN  IF ann_foreign = "may_participate" /\ ins_foreign = "cannot_bid"
        THEN Result(19, "fail", "medium", ann_foreign, ins_foreign, "foreign_mismatch")
        ELSE Result(19, IF ann_foreign = ins_foreign THEN "pass" ELSE "fail", "medium",
                    ann_foreign, ins_foreign, "")

check_item_20(ann, ins) ==
    IF ann.foreign_allow
    THEN IF ~(ins.translation_unchecked \/ ~ins.translation) /\ ins.tax /\ ins.credit
         THEN Result(20, "pass", "medium", "may_participate", "all_checked", "")
         ELSE Result(20, "fail", "medium", "may_participate", "some_unchecked", "documents_missing")
    ELSE IF ann.foreign_deny
    THEN Result(20, "pass", "medium", "may_not_participate", "not_applicable", "")
    ELSE Result(20, "fail", "medium", "unclear", "undetermined", "foreign_unclear")

check_item_21(ann, ins) == Result(21, "pass", "medium", "", "", "")

check_item_22(ann, ins) ==
    IF ann.legal /\ ~ann.business
    THEN IF ins.other16 /\ ~ins.specific_business
         THEN Result(22, "pass", "medium", "legal_registered", "item16_checked", "")
         ELSE Result(22, "fail", "medium", "legal_registered", "item16_wrong", "should_check_item16")
    ELSE IF ann.business
    THEN IF ins.specific_business
         THEN Result(22, "pass", "medium", "business_code", "business_checked", "")
         ELSE Result(22, "fail", "medium", "business_code", "business_unchecked", "should_check_business")
    ELSE Result(21, "pass", "medium", "unrecognised", "undetermined", "")

check_item_23(ann, ins) ==
    Result(23, IF ann.single_stage THEN "pass" ELSE "fail", "high",
           IF ann.single_stage THEN "single_stage" ELSE "unrecognised",
           IF ins.single_stage THEN "single_stage" ELSE "unrecognised", "")

\* the result list check_case builds
CheckResults(ann, ins) ==
    << check_item_1(ann, ins), check_item_2(ann, ins), check_item_3(ann, ins),
       check_item_4(ann, ins), check_item_5(ann, ins), check_item_6(ann, ins),
       check_item_7(ann, ins), check_item_8(ann, ins), check_item_9(ann, ins),
       check_item_10(ann, ins), check_item_11(ann, ins), check_item_12(ann, ins),
       check_item_13(ann, ins), check_item_14(ann, ins), check_item_15(ann, ins),
       check_item_16(ann, ins), check_item_17(ann, ins), check_item_18(ann, ins),
       check_item_19(ann, ins), check_item_20(ann, ins), check_item_21(ann, ins),
       check_item_22(ann, ins), check_item_23(ann, ins) >>

FailsWithRisk(rs, risk) == SelectSeq(rs, LAMBDA r : r.status = "fail" /\ r.risk = risk)

\* a report whose risk counts the failures and ignores their tiers
CountingReport(rs) ==
    LET passed_items == Len(SelectSeq(rs, LAMBDA r : r.status = "pass"))
        failed_items == Len(rs) - passed_items
    IN  [total_items |-> Len(rs), passed_items |-> passed_items,
         failed_items |-> failed_items,
         overall_status |-> IF failed_items > 0 THEN "wrong" ELSE "right",
         risk |-> IF failed_items >= 3 THEN "high"
                  ELSE IF failed_items >= 1 THEN "medium" ELSE "low"]

\* generate_report: the statistics and the overall verdict (the HTML is left out)
generate_report(rs) ==
    LET passed_items == Len(SelectSeq(rs, LAMBDA r : r.status = "pass"))
        high_risk_fails == FailsWithRisk(rs, "high")
        medium_risk_fails == FailsWithRisk(rs, "medium")
    IN  [total_items |-> Len(rs), passed_items |-> passed_items,
         failed_items |-> Len(rs) - passed_items,
         overall_status |-> IF high_risk_fails # <<>> \/ medium_risk_fails # <<>>
                            THEN "wrong" ELSE "right",
         risk |-> IF high_risk_fails # <<>> THEN "high"
                  ELSE IF medium_risk_fails # <<>> THEN "medium" ELSE "low"]
-----------------------------------------------------------------------------
(* The input records.  Three record pairs are the bases; every input is a  *)
(* base with the fields one check reads set to every value of their        *)
(* domains.                                                                *)

\* a pair whose fields all agree
AnnConsistent ==
    [case_no |-> C13A07469, case_name |-> Valves4, tender_method |-> "open_quotation",
     amount |-> IntV(1493940), amount_band |-> "below_threshold", legal_basis |-> "art49",
     award_method |-> "lowest", reserve_price |-> "yes", multiple_award |-> "no",
     art64_2 |-> "no", category |-> "service", treaty |-> "no", sensitive |-> "no",
     national_security |-> "no", option |-> "none", special |-> "no", turnkey |-> "no",
     negotiation |-> "no", e_collect |-> "yes", bond |-> IntV(59000),
     disabled_priority |-> "no", foreign |-> "allow", sme_only |-> "no",
     opening |-> "single_stage", qualification |-> "legal_registered"]

InsConsistent ==
    [case_no |-> C13A07469, object_name |-> Valves4, bond_amount |-> IntV(59000),
     p3_tenth |-> "checked", p4_nonspecial |-> "checked", p5_tenth |-> "checked",
     p6_reserve |-> "checked", p7_keep |-> "unchecked", p7_nokeep |-> "checked",
     p8_treaty |-> "unchecked", p8_allow |-> "checked", p8_deny |-> "unchecked",
     p8_ban_mainland |-> "unchecked", p9_ecollect |-> "checked",
     p13_sensitive |-> "unchecked", p13_security |-> "unchecked",
     p19_none |-> "unchecked", p19_fixed |-> "checked", p35_nonturnkey |-> "checked",
     p42_single |-> "checked", p42_two |-> "unchecked", p54_noneg |-> "checked",
     p59_lowest |-> "checked", p59_non64 |-> "checked", p59_disabled |-> "unchecked"]

\* the sample pair of tender_compliance_validator.py main()
AnnSample ==
    [AnnConsistent EXCEPT !.award_method = "highest", !.category = "buy_custom",
                          !.sensitive = "yes", !.option = "yes", !.qualification = Missing]

InsSample ==
    [InsConsistent EXCEPT !.case_no = C13A07469A, !.p8_treaty = "checked",
                          !.p42_single = "unchecked", !.p42_two = "checked"]

\* two empty dicts
AnnEmpty ==
    [case_no |-> MissingText, case_name |-> MissingText, tender_method |-> Missing,
     amount |-> MissingV, amount_band |-> Missing, legal_basis |-> Missing,
     award_method |-> Missing, reserve_price |-> Missing, multiple_award |-> Missing,
     art64_2 |-> Missing, category |-> Missing, treaty |-> Missing, sensitive |-> Missing,
     national_security |-> Missing, option |-> Missing, special |-> Missing,
     turnkey |-> Missing, negotiation |-> Missing, e_collect |-> Missing, bond |-> MissingV,
     disabled_priority |-> Missing, foreign |-> Missing, sme_only |-> Missing,
     opening |-> Missing, qualification |-> Missing]

InsEmpty ==
    [case_no |-> MissingText, object_name |-> MissingText, bond_amount |-> MissingV,
     p3_tenth |-> Missing, p4_nonspecial |-> Missing, p5_tenth |-> Missing,
     p6_reserve |-> Missing, p7_keep |-> Missing, p7_nokeep |-> Missing,
     p8_treaty |-> Missing, p8_allow |-> Missing, p8_deny |-> Missing,
     p8_ban_mainland |-> Missing, p9_ecollect |-> Missing,
     p13_sensitive |-> Missing, p13_security |-> Missing,
     p19_none |-> Missing, p19_fixed |-> Missing, p35_nonturnkey |-> Missing,
     p42_single |-> Missing, p42_two |-> Missing, p54_noneg |-> Missing,
     p59_lowest |-> Missing, p59_non64 |-> Missing, p59_disabled |-> Missing]

\* the records the extractors of tender_audit_system.py build when the service
\* answer is not JSON: 案號, 案名 and 招標方式 hold the sentinel and the other
\* announcement keys are absent; the instructions hold 押標金金額 0 and 未勾選
\* under the checkbox keys, of which seven are spelt differently from the keys
\* the checks read
AnnFallback ==
    [AnnEmpty EXCEPT !.case_no = NAText, !.case_name = NAText, !.tender_method = NA]

InsFallback ==
    [case_no |-> NAText, object_name |-> NAText, bond_amount |-> IntV(0),
     p3_tenth |-> Missing, p4_nonspecial |-> "unchecked", p5_tenth |-> Missing,
     p6_reserve |-> "unchecked", p7_keep |-> Missing, p7_nokeep |-> Missing,
     p8_treaty |-> "unchecked", p8_allow |-> Missing, p8_deny |-> Missing,
     p8_ban_mainland |-> Missing, p9_ecollect |-> "unchecked",
     p13_sensitive |-> "unchecked", p13_security |-> "unchecked",
     p19_none |-> "unchecked", p19_fixed |-> "unchecked", p35_nonturnkey |-> "unchecked",
     p42_single |-> "unchecked", p42_two |-> "unchecked", p54_noneg |-> "unchecked",
     p59_lowest |-> "unchecked", p59_non64 |-> "unchecked", p59_disabled |-> "unchecked"]

Bases == {<<AnnConsistent, InsConsistent>>, <<AnnSample, InsSample>>,
          <<AnnEmpty, InsEmpty>>, <<AnnFallback, InsFallback>>}

\* the inputs made from one base, one set for each group of fields read together
Variations(A, I) ==
    {<<[A EXCEPT !.case_no = a], [I EXCEPT !.case_no = b]>> : a \in CaseNumbers, b \in CaseNumbers}
    \cup {<<[A EXCEPT !.case_name = a], [I EXCEPT !.object_name = b]>> : a \in CaseNames, b \in CaseNames}
    \cup {<<[A EXCEPT !.tender_method = m, !.amount = n], [I EXCEPT !.p3_tenth = c, !.p5_tenth = d]>> :
             m \in TenderMethods, n \in Amounts, c \in Checkbox, d \in Checkbox}
    \cup {<<[A EXCEPT !.amount_band = g, !.legal_basis = l], [I EXCEPT !.p3_tenth = c]>> :
             g \in AmountBands, l \in LegalBases, c \in Checkbox}
    \cup {<<[A EXCEPT !.award_method = m, !.art64_2 = y], [I EXCEPT !.p59_lowest = c, !.p59_non64 = d]>> :
             m \in AwardMethods, y \in YesNo, c \in Checkbox, d \in Checkbox}
    \cup {<<[A EXCEPT !.reserve_price = y, !.multiple_award = z], [I EXCEPT !.p6_reserve = c]>> :
             y \in YesNo, z \in YesNo, c \in Checkbox}
    \cup {<<[A EXCEPT !.category = g, !.treaty = y], [I EXCEPT !.p8_treaty = c]>> :
             g \in Categories, y \in YesNo, c \in Checkbox}
    \cup {<<[A EXCEPT !.sensitive = y], [I EXCEPT !.p13_sensitive = c, !.p8_ban_mainland = d]>> :
             y \in YesNo, c \in Checkbox, d \in Checkbox}
    \cup {<<[A EXCEPT !.national_security = y], [I EXCEPT !.p13_security = c, !.p8_ban_mainland = d]>> :
             y \in YesNo, c \in Checkbox, d \in Checkbox}
    \cup {<<[A EXCEPT !.option = o], [I EXCEPT !.p7_keep = c, !.p7_nokeep = d]>> :
             o \in Options, c \in Checkbox, d \in Checkbox}
    \cup {<<[A EXCEPT !.special = y, !.turnkey = z], [I EXCEPT !.p4_nonspecial = c, !.p35_nonturnkey = d]>> :
             y \in YesNo, z \in YesNo, c \in Checkbox, d \in Checkbox}
    \cup {<<[A EXCEPT !.negotiation = y, !.e_collect = z], [I EXCEPT !.p54_noneg = c, !.p9_ecollect = d]>> :
             y \in YesNo, z \in YesNo, c \in Checkbox, d \in Checkbox}
    \cup {<<[A EXCEPT !.bond = a], [I EXCEPT !.bond_amount = b, !.p19_fixed = c, !.p19_none = d]>> :
             a \in Bonds, b \in Bonds, c \in Checkbox, d \in {"checked", "unchecked"}}
    \cup {<<[A EXCEPT !.disabled_priority = y, !.qualification = q], [I EXCEPT !.p59_disabled = c]>> :
             y \in YesNo, q \in Qualifications, c \in Checkbox}
    \cup {<<[A EXCEPT !.foreign = f, !.sme_only = y], [I EXCEPT !.p8_allow = c, !.p8_deny = d]>> :
             f \in Foreigns, y \in YesNo, c \in Checkbox, d \in Checkbox}
    \cup {<<[A EXCEPT !.opening = o], [I EXCEPT !.p42_single = c, !.p42_two = d]>> :
             o \in Openings, c \in Checkbox, d \in Checkbox}

\* a pair of documents whose settings agree
AnnDocConsistent ==
    [found |-> TRUE, empty |-> FALSE, case_token |-> C13A07469, qty |-> "4",
     amount |-> 1493940, budget |-> 1493940, open_quotation |-> TRUE, lowest |-> TRUE,
     buy_custom |-> TRUE, treaty_no |-> TRUE, sensitive_yes |-> FALSE, sensitive_no |-> TRUE,
     security_yes |-> FALSE, security_no |-> TRUE, bond |-> "59000",
     foreign_allow |-> TRUE, foreign_deny |-> FALSE, legal |-> TRUE, business |-> FALSE,
     single_stage |-> TRUE]

\* treaty_checked: the treaty checkbox of point 8 is checked (no check reads it)
\* two_stage_checked: the two-stage box of point 42 is checked (no check reads it)
InsDocConsistent ==
    [found |-> TRUE, empty |-> FALSE, case_token |-> C13A07469, qty |-> "4",
     range_two |-> TRUE, range_three |-> FALSE, public_tender |-> FALSE, quotation |-> TRUE,
     lowest |-> TRUE, lease |-> FALSE, treaty_checked |-> FALSE, checked_6 |-> FALSE,
     checked_7 |-> FALSE, deny_mainland |-> FALSE, bond |-> "59000", deny_bid |-> FALSE,
     translation |-> TRUE, translation_unchecked |-> FALSE, tax |-> TRUE, credit |-> TRUE,
     other16 |-> TRUE, specific_business |-> FALSE, single_stage |-> TRUE,
     two_stage_checked |-> FALSE]

\* a pair of documents in which no search finds anything
AnnDocBlank ==
    [found |-> TRUE, empty |-> FALSE, case_token |-> <<>>, qty |-> NotFound,
     amount |-> 0, budget |-> 0, open_quotation |-> FALSE, lowest |-> FALSE,
     buy_custom |-> FALSE, treaty_no |-> FALSE, sensitive_yes |-> FALSE, sensitive_no |-> FALSE,
     security_yes |-> FALSE, security_no |-> FALSE, bond |-> NotFound,
     foreign_allow |-> FALSE, foreign_deny |-> FALSE, legal |-> FALSE, business |-> FALSE,
     single_stage |-> FALSE]

InsDocBlank ==
    [found |-> TRUE, empty |-> FALSE, case_token |-> <<>>, qty |-> NotFound,
     range_two |-> FALSE, range_three |-> FALSE, public_tender |-> FALSE, quotation |-> FALSE,
     lowest |-> FALSE, lease |-> FALSE, treaty_checked |-> FALSE, checked_6 |-> FALSE,
     checked_7 |-> FALSE, deny_mainland |-> FALSE, bond |-> NotFound, deny_bid |-> FALSE,
     translation |-> FALSE, translation_unchecked |-> FALSE, tax |-> FALSE, credit |-> FALSE,
     other16 |-> FALSE, specific_business |-> FALSE, single_stage |-> FALSE,
     two_stage_checked |-> FALSE]

DocBases == {<<AnnDocConsistent, InsDocConsistent>>, <<AnnDocBlank, InsDocBlank>>}

Quantities == {"4", "5", NotFound}
DocAmounts == {0, 100000, 1493940, 2000000}
DocBudgets == {0, 1993405}
DocBonds == {"800", "8000", "59000", NotFound}

DocVariations(A, I) ==
    {<<[A EXCEPT !.found = a, !.empty = b], [I EXCEPT !.found = c, !.empty = d]>> :
         a \in BOOLEAN, b \in BOOLEAN, c \in BOOLEAN, d \in BOOLEAN}
    \cup {<<[A EXCEPT !.case_token = a], [I EXCEPT !.case_token = b]>> :
             a \in CaseNumbers \ {MissingText}, b \in CaseNumbers \ {MissingText}}
    \cup {<<[A EXCEPT !.qty = a], [I EXCEPT !.qty = b]>> : a \in Quantities, b \in Quantities}
    \cup {<<[A EXCEPT !.amount = a, !.budget = b], [I EXCEPT !.range_two = c, !.range_three = d]>> :
             a \in DocAmounts, b \in DocBudgets, c \in BOOLEAN, d \in BOOLEAN}
    \cup {<<[A EXCEPT !.open_quotation = a, !.lowest = b],
            [I EXCEPT !.public_tender = c, !.quotation = d, !.lowest = e]>> :
             a \in BOOLEAN, b \in BOOLEAN, c \in BOOLEAN, d \in BOOLEAN, e \in BOOLEAN}
    \cup {<<[A EXCEPT !.buy_custom = a, !.treaty_no = b], [I EXCEPT !.lease = c, !.treaty_checked = d]>> :
             a \in BOOLEAN, b \in BOOLEAN, c \in BOOLEAN, d \in BOOLEAN}
    \cup {<<[A EXCEPT !.sensitive_yes = a, !.sensitive_no = b], [I EXCEPT !.checked_6 = c, !.deny_mainland = d]>> :
             a \in BOOLEAN, b \in BOOLEAN, c \in BOOLEAN, d \in BOOLEAN}
    \cup {<<[A EXCEPT !.security_yes = a, !.security_no = b], [I EXCEPT !.checked_7 = c, !.deny_mainland = d]>> :
             a \in BOOLEAN, b \in BOOLEAN, c \in BOOLEAN, d \in BOOLEAN}
    \cup {<<[A EXCEPT !.bond = a], [I EXCEPT !.bond = b]>> : a \in DocBonds, b \in DocBonds}
    \cup {<<[A EXCEPT !.foreign_allow = a, !.foreign_deny = b],
            [I EXCEPT !.deny_bid = c, !.translation = d, !.translation_unchecked = e,
                      !.tax = f, !.credit = g]>> :
             a \in BOOLEAN, b \in BOOLEAN, c \in BOOLEAN, d \in BOOLEAN, e \in BOOLEAN,
             f \in BOOLEAN, g \in BOOLEAN}
    \cup {<<[A EXCEPT !.single_stage = a], [I EXCEPT !.single_stage = b, !.two_stage_checked = c]>> :
             a \in BOOLEAN, b \in BOOLEAN, c \in BOOLEAN}
    \cup {<<[A EXCEPT !.legal = a, !.business = b, !.single_stage = c],
            [I EXCEPT !.other16 = d, !.specific_business = e]>> :
             a \in BOOLEAN, b \in BOOLEAN, c \in BOOLEAN, d \in BOOLEAN, e \in BOOLEAN}


-----------------------------------------------------------------------------
(* The state machine.  One behaviour is one program run: the objects are   *)
(* constructed, then the program audits one case.                          *)

Programs == {"v1", "sys", "smart", "c23"}

NoSummary == [risk |-> "none"]

\* no folder has been given, nothing was extracted, nothing was returned
NoFolder == [exists |-> FALSE, announcement |-> FALSE, requirements |-> FALSE,
             ann_readable |-> FALSE, req_readable |-> FALSE]
NotExtracted == [announcement |-> "nothing", requirements |-> "nothing"]

\* no file was looked for yet (a file is its place in the listing, 0 is None)
NothingSelected == [announcement |-> 0, requirements |-> 0]
NoReport == [verdict |-> "none"]

\* no text was parsed yet
NoResponse == <<"<unset>">>
NotParsed == [kind |-> "nothing", fields |-> 0]

\* the validation_results dict the constructor of the program's validator makes;
\* SmartComplianceValidator inherits the constructor of tender_audit_system.py,
\* GemmaComplianceValidator counts 23 items (ai_tender_audit_v2.py has no validator)
ConstructedResults(p) ==
    IF p \in {"v1", "gemma"} THEN NewValidationResults(23) ELSE NewValidationResults(22)

\* the state after construction, whichever program runs
Fresh ==
    /\ pc = "ready"
    /\ announcement_data = AnnEmpty
    /\ requirements_data = InsEmpty
    /\ validation_results = ConstructedResults(prog)
    /\ returned = <<>>
    /\ calls = 0
    /\ summary = NoSummary
    /\ validation_items = <<>>
    /\ detailed_result = NoReport
    /\ announcement_content = AnnDocBlank
    /\ instructions_content = InsDocBlank
    /\ results = <<>>
    /\ case_folder = NoFolder
    /\ posts = <<>>
    /\ extracted = NotExtracted
    /\ audit_result = "nothing"
    /\ report_lines = <<>>
    /\ listing = <<>>
    /\ selected = NothingSelected
    /\ conversation_history = <<>>
    /\ ai_response = NoResponse
    /\ loads = <<>>
    /\ parsed = NotParsed

Init == prog \in Programs /\ Fresh

\* validator.validate_all(A, I) of tender_compliance_validator.py, as main() calls it
V1ValidateAll(A, I) ==
    LET st == v1_validate_all(validation_results, A, I)
    IN  /\ announcement_data' = A
        /\ requirements_data' = I
        /\ validation_results' = st.res
        /\ calls' = calls + 1
        /\ returned' = IF st.exc = "none" THEN Append(returned, st.res) ELSE returned
        /\ pc' = IF st.exc = "none" THEN "done" ELSE "raised"
        /\ UNCHANGED <<prog, summary, validation_items, detailed_result,
                       announcement_content, instructions_content, results>>
        /\ UNCHANGED io
        /\ UNCHANGED aux

\* TenderAuditSystem.audit_tender_case from the extracted records on:
\* validator.validate_all, then generate_summary
AuditTenderCase(A, I) ==
    LET st == validate_all(validation_results, A, I)
    IN  /\ announcement_data' = A
        /\ requirements_data' = I
        /\ validation_results' = st.res
        /\ calls' = calls + 1
        /\ returned' = IF st.exc = "none" THEN Append(returned, st.res) ELSE returned
        /\ summary' = IF st.exc = "none" THEN generate_summary(st.res) ELSE summary
        /\ pc' = IF st.exc = "none" THEN "done" ELSE "raised"
        /\ UNCHANGED <<prog, validation_items, detailed_result,
                       announcement_content, instructions_content, results>>
        /\ UNCHANGED io
        /\ UNCHANGED aux

\* IntelligentAuditSystem.audit_tender_case_smart from the extracted records on:
\* validator.validate_all_smart, then _generate_executive_summary
AuditTenderCaseSmart(A, I) ==
    /\ announcement_data' = A
    /\ requirements_data' = I
    /\ validation_items' = SmartItems(A, I)
    /\ detailed_result' = SmartReport(validation_items')
    /\ summary' = _generate_executive_summary(detailed_result')
    /\ calls' = calls + 1
    /\ pc' = "done"
    /\ UNCHANGED <<prog, validation_results, returned,
                   announcement_content, instructions_content, results>>
    /\ UNCHANGED io
    /\ UNCHANGED aux

\* Complete23ItemChecker.check_case: it returns without a report when a file is
\* not found or a text is empty; each of its returns is a bare return, so the
\* caller receives None, and the message of an abort is only printed
CheckCase(ann, ins) ==
    /\ announcement_content' = ann
    /\ instructions_content' = ins
    /\ calls' = calls + 1
    /\ IF ~ann.found \/ ~ins.found \/ ann.empty \/ ins.empty
       THEN /\ pc' = "aborted"
            /\ UNCHANGED <<results, summary>>
       ELSE /\ results' = CheckResults(ann, ins)
            /\ summary' = generate_report(results')
            /\ pc' = "done"
    /\ UNCHANGED <<prog, announcement_data, requirements_data, validation_results,
                   returned, validation_items, detailed_result>>
    /\ audit_result' = "None"
    /\ UNCHANGED <<case_folder, posts, extracted>>
    /\ UNCHANGED aux

\* TenderAuditSystem._get_item_status: the marker of one check number
_get_item_status(item_num, r) ==
    IF \E i \in 1..Len(r.passed) : r.passed[i] = item_num
    THEN [mark |-> "pass", text |-> ""]
    ELSE IF \E i \in 1..Len(r.failed) : r.failed[i] = item_num
    THEN IF \E i \in 1..Len(r.errors) : r.errors[i].item = item_num
         THEN LET first == CHOOSE i \in 1..Len(r.errors) :
                               /\ r.errors[i].item = item_num
                               /\ \A j \in 1..(i - 1) : r.errors[j].item # item_num
              IN  [mark |-> "fail", text |-> r.errors[first].desc]
         ELSE [mark |-> "fail", text |-> "inconsistent"]
    ELSE [mark |-> "unchecked", text |-> ""]

\* the 23 blocks _add_txt_item_1 .. _add_txt_item_23 write, by their 檢核 line
TxtItems == 1..23

\* _add_txt_item_2 computes 採購金額 // 10000 and _add_txt_item_17 formats the
\* two bonds with {:,}: a str amount is a TypeError, a str bond a ValueError
TxtError(A, I) ==
    IF GetAmt(A, "amount").t = "str" THEN "TypeError"
    ELSE IF GetAmt(A, "bond").t = "str" \/ GetAmt(I, "bond_amount").t = "str" THEN "ValueError"
    ELSE "none"

\* TenderAuditSystem.export_to_txt on the report of a completed audit, as main()
\* calls it
ExportToTxt ==
    /\ prog = "sys"
    /\ pc = "done"
    /\ IF TxtError(announcement_data, requirements_data) = "none"
       THEN /\ report_lines' = [k \in TxtItems |-> _get_item_status(k, validation_results)]
            /\ pc' = "exported"
       ELSE /\ pc' = "export_raised"
            /\ UNCHANGED report_lines
    /\ UNCHANGED <<prog, announcement_data, requirements_data, validation_results,
                   returned, calls, summary, validation_items, detailed_result,
                   announcement_content, instructions_content, results,
                   listing, selected, conversation_history, ai_response, loads, parsed>>
    /\ UNCHANGED io

V1Run1 == prog = "v1" /\ pc = "ready" /\ \E b \in Bases : \E in \in Variations(b[1], b[2]) : V1ValidateAll(in[1], in[2])
SysRun1 == prog = "sys" /\ pc = "ready" /\ \E b \in Bases : \E in \in Variations(b[1], b[2]) : AuditTenderCase(in[1], in[2])
SmartRun1 == prog = "smart" /\ pc = "ready" /\ \E b \in Bases : \E in \in Variations(b[1], b[2]) : AuditTenderCaseSmart(in[1], in[2])
C23Run1 == prog = "c23" /\ pc = "ready" /\ \E b \in DocBases : \E d \in DocVariations(b[1], b[2]) : CheckCase(d[1], d[2])

Next == V1Run1 \/ SysRun1 \/ SmartRun1 \/ C23Run1 \/ ExportToTxt

Spec == Init /\ [][Next]_vars
-----------------------------------------------------------------------------
(* One validator used for several cases in a row: a TenderAuditSystem      *)
(* holds one TenderComplianceValidator for its whole life, and             *)
(* audit_tender_case calls its validate_all once per case.                 *)

\* the number of cases one object audits in a row
MaxCalls == 3

\* scenario B: the announcement says no treaty applies, the treaty checkbox is checked
InsTreatyChecked == [InsConsistent EXCEPT !.p8_treaty = "checked"]

\* the announcement amount arrives as a text
AnnTextAmount == [AnnConsistent EXCEPT !.amount = StrV("1,493,940", 1493940)]

BatchInputs == {<<AnnConsistent, InsConsistent>>, <<AnnSample, InsSample>>,
                <<AnnFallback, InsFallback>>, <<AnnEmpty, InsEmpty>>,
                <<AnnConsistent, InsTreatyChecked>>, <<AnnTextAmount, InsConsistent>>}

InitBatch == Init /\ prog \in {"v1", "sys"}

\* an exception leaves the caller; the next case is audited only after a call that returned
V1Again ==
    /\ prog = "v1" /\ pc # "raised" /\ calls < MaxCalls
    /\ \E in \in BatchInputs : V1ValidateAll(in[1], in[2])

SysAgain ==
    /\ prog = "sys" /\ pc # "raised" /\ calls < MaxCalls
    /\ \E in \in BatchInputs : AuditTenderCase(in[1], in[2])

NextBatch == V1Again \/ SysAgain

SpecBatch == InitBatch /\ [][NextBatch]_vars

-----------------------------------------------------------------------------
(* Claims.                                                                 *)

\* the elements of a list
Range(seq) == {seq[i] : i \in 1..Len(seq)}

\* how often a check number is in a list
Occurrences(seq, x) == Cardinality({i \in 1..Len(seq) : seq[i] = x})

\* C1: completeness.  When a rule-engine run has ended, exactly N results are
\* recorded, one for each check number 1..N, N being the rule-set size 總項次
\* (23 in tender_compliance_validator.py, 22 in tender_audit_system.py, 23 rows
\* in the 23-item checker), so 通過數 + 失敗數 = 總項次; the run ends by
\* returning, whatever fields are missing or unknown.
C1_Completeness ==
    /\ (prog \in {"v1", "sys"} /\ pc # "ready") =>
           /\ pc = "done"
           /\ validation_results.n_pass + validation_results.n_fail = validation_results.total
           /\ \A k \in 1..validation_results.total :
                  Occurrences(validation_results.passed \o validation_results.failed, k) = 1
    /\ (prog = "c23" /\ pc = "done") =>
           \A k \in 1..23 : Cardinality({i \in 1..Len(results) : results[i].num = k}) = 1

\* C2: in the report of validate_all_smart the counts by status add up: passed
\* + failed + warned + skipped = the number of checks run = the reported 總項次.
C2_CountsAddUp ==
    (prog = "smart" /\ pc = "done") =>
        /\ detailed_result.n_pass + detailed_result.n_fail + detailed_result.n_warn
               + Len(WithStatus(validation_items, SKIP)) = Len(validation_items)
        /\ Len(validation_items) = detailed_result.total

\* the result a freshly constructed validator returns for the two records
FreshResult(p, A, I) ==
    IF p = "v1" THEN v1_validate_all(ConstructedResults(p), A, I)
    ELSE validate_all(ConstructedResults(p), A, I)

\* C3: the rule engine is stateless.  After any sequence of validate_all calls on
\* one validator, the call that has just returned gave the pass list, fail list,
\* error details and counts a fresh validator gives for that call's records.
C3_Stateless ==
    (prog \in {"v1", "sys"} /\ pc = "done") =>
        returned[Len(returned)] = FreshResult(prog, announcement_data, requirements_data).res

\* validate_all returns self.validation_results: the object a call returned is
\* the validator's one dict, whose present content is validation_results
ReturnedObject(k) == validation_results

\* C4: results are never mutated after creation.  Every result validate_all has
\* returned still has the lists, counts and verdict it had when it was returned.
C4_NeverMutated ==
    prog \in {"v1", "sys"} => \A k \in 1..Len(returned) : ReturnedObject(k) = returned[k]
\* the smart validator's item with the given number
SmartItem(num) ==
    validation_items[CHOOSE i \in 1..Len(validation_items) : validation_items[i].num = num]

\* the case numbers as the smart comparison sees them: trimmed, upper case
Normal(t) == Upper(Strip(t))

\* one text is the other followed by exactly one character c
OneTrailing(a, b, c) == a = Append(b, c) \/ b = Append(a, c)

Letters == {"A", "B"}

\* the case names match
NamesMatch == GetText(announcement_data, "case_name") = GetText(requirements_data, "object_name")
                  /\ GetText(announcement_data, "case_name") # <<>>

UnknownAmount(v) == v.t = "missing" \/ (v.t = "str" /\ v.n < 0)

\* an amount with separators and currency text removed (0 without digits)
NormalizedAmount(v) == IF v.t = "missing" \/ v.n < 0 THEN 0 ELSE v.n

\* |a - b| / max(a, b) < 5% for two different positive amounts
InsideBand(a, b) == a > 0 /\ b > 0 /\ a # b /\ Abs(a - b) * 100 < 5 * Max2(a, b)

\* the error details recorded for a check number
ErrorsOf(num) == SelectSeq(validation_results.errors, LAMBDA e : e.item = num)

\* C6: the bid-bond check passes when the two normalized amounts are equal,
\* skips (does not fail) when the amount of exactly one side is unknown, and
\* fails with both values reported when the amounts differ beyond the tolerance
C6_BidBond ==
    LET va == announcement_data.bond
        vb == requirements_data.bond_amount
        a == NormalizedAmount(va)
        b == NormalizedAmount(vb)
        oneUnknown == UnknownAmount(va) # UnknownAmount(vb)
        bothKnown == ~UnknownAmount(va) /\ ~UnknownAmount(vb)
    IN  /\ (prog = "smart" /\ pc = "done") =>
               /\ (bothKnown /\ a = b) => SmartItem(17).status = PASS
               /\ oneUnknown => SmartItem(17).status = SKIP
               /\ (bothKnown /\ a # b /\ ~InsideBand(a, b)) =>
                      (SmartItem(17).status = FAIL /\ SmartItem(17).vals = <<a, b>>)
        /\ (prog \in {"sys", "v1"} /\ pc = "done") =>
               /\ (bothKnown /\ a = b) => 17 \in Range(validation_results.passed)
               /\ oneUnknown => ~(17 \in Range(validation_results.failed))
               /\ (bothKnown /\ a # b /\ ~InsideBand(a, b)) =>
                      (17 \in Range(validation_results.failed) /\ Len(ErrorsOf(17)[1].vals) = 2)

\* C7: the smart bid-bond check compares the amounts after separators and
\* currency text are removed (amounts equal after that are not failed), and two
\* different positive amounts whose relative difference is below 5% are a
\* warning, never a failure
C7_FivePercentBand ==
    LET a == NormalizedAmount(announcement_data.bond)
        b == NormalizedAmount(requirements_data.bond_amount)
    IN  (prog = "smart" /\ pc = "done") =>
            /\ a = b => SmartItem(17).status # FAIL
            /\ InsideBand(a, b) => SmartItem(17).status = WARNING

\* C7 witness: "59,000" against 60000 (1.7% apart) was scored a warning
C7_Witness ==
    /\ prog = "smart" /\ pc = "done"
    /\ announcement_data.bond = StrV("59,000", 59000)
    /\ requirements_data.bond_amount = IntV(60000)
    /\ SmartItem(17).status = WARNING

\* the 23-item checker's result with the given number
ResultOf(num) == results[CHOOSE i \in 1..Len(results) : results[i].num = num]

MaxTier(rs) ==
    IF \E i \in 1..Len(rs) : rs[i].risk = "high" THEN "high"
    ELSE IF \E i \in 1..Len(rs) : rs[i].risk = "medium" THEN "medium" ELSE "low"

FailedResults == SelectSeq(results, LAMBDA r : r.status = "fail")

\* the number of failed checks of the run
FailCount ==
    IF prog = "smart" THEN Len(WithStatus(validation_items, FAIL))
    ELSE Len(validation_results.failed)

\* the risk a report shows when exactly one check failed; a report whose risk
\* is the highest tier among the failed checks shows the tier of that check
SoleFailureRisk ==
    IF prog = "smart"
    THEN _generate_executive_summary([verdict |-> "fail", total |-> 23, n_pass |-> 20,
                                      n_fail |-> 1, n_warn |-> 0, n_fixed |-> 0]).risk
    ELSE generate_summary([verdict |-> "fail", total |-> 22, n_pass |-> 21, n_fail |-> 1]).risk

C10_ScenarioB ==
    /\ (prog = "sys" /\ pc = "done" /\ announcement_data.treaty = "no"
            /\ requirements_data.p8_treaty = "checked") =>
           /\ 9 \in Range(validation_results.failed)
           /\ summary.risk = "high"
           /\ Len(ErrorsOf(9)[1].vals) = 2
    /\ (prog = "c23" /\ pc = "done" /\ announcement_content.treaty_no
            /\ instructions_content.treaty_checked) =>
           /\ ResultOf(9).status = "fail"
           /\ summary.risk = "high"
           /\ ResultOf(9).ann_value = "no" /\ ResultOf(9).ins_value = "checked"
\* scenario A's records: X100 against X100A, every other field matching
ScenarioA ==
    /\ announcement_data = [AnnConsistent EXCEPT !.case_no = X100]
    /\ requirements_data = [InsConsistent EXCEPT !.case_no = X100A]

\* C11: with case numbers X100 and X100A and every other field matching, item 1
\* is a warning (it is not recorded as a failure) and the overall risk is not high
C11_ScenarioA ==
    /\ (prog = "smart" /\ pc = "done" /\ ScenarioA) =>
           (SmartItem(1).status = WARNING /\ summary.risk # "high")
    /\ (prog = "v1" /\ pc = "done" /\ ScenarioA) =>
           ~(1 \in Range(validation_results.failed))
\* the announcement says single-stage opening (不分段)
AnnouncesSingleStage == Contains("kw_not_staged", Get(announcement_data, "opening", ""))

\* the instructions of the run with the single-stage box of point 42 unchecked
SingleStageUnchecked == [requirements_data EXCEPT !.p42_single = "unchecked"]

\* the error type recorded for the opening check when the single-stage box is simply unchecked
MissingBoxType ==
    validate_item_22(NewValidationResults(22), announcement_data, SingleStageUnchecked).res.errors[1].type

\* C12: with a single-stage announcement and both opening boxes of the
\* instructions checked, the opening-method check fails as a contradiction,
\* with an error type other than the one of a missing single-stage box
C12_ScenarioC ==
    /\ (prog = "sys" /\ pc = "done" /\ AnnouncesSingleStage
            /\ requirements_data.p42_single = "checked" /\ requirements_data.p42_two = "checked") =>
           /\ 22 \in Range(validation_results.failed)
           /\ ErrorsOf(22)[1].type = "opening_contradiction"
           /\ ErrorsOf(22)[1].type # MissingBoxType
    /\ (prog = "smart" /\ pc = "done" /\ AnnouncesSingleStage
            /\ requirements_data.p42_single = "checked" /\ requirements_data.p42_two = "checked") =>
           /\ SmartItem(23).status = FAIL
           /\ SmartItem(23).desc = "opening_contradiction"
           /\ SmartItem(23).desc # _validate_item_23_smart(announcement_data, SingleStageUnchecked).desc
    /\ (prog = "c23" /\ pc = "done" /\ announcement_content.single_stage
            /\ instructions_content.single_stage /\ instructions_content.two_stage_checked) =>
           ResultOf(23).status = "fail"
\* one call of validate_all's list executed alone, on a freshly constructed validator
CheckAlone(name) ==
    SysStep(name, NewValidationResults(22), announcement_data, requirements_data)

\* the calls of validate_all in the opposite order, on a freshly constructed validator
ReverseSteps == [k \in 1..Len(SysSteps) |-> SysSteps[Len(SysSteps) + 1 - k]]

OtherOrder ==
    SysRun(ReverseSteps, 1, Ok(NewValidationResults(22)), announcement_data, requirements_data)

\* C13: the verdict of each check depends on the two records alone: what a
\* check records when executed alone is what the run recorded for it, and the
\* checks executed in another order record the same verdicts
C13_Independent ==
    /\ (prog = "sys" /\ pc \in {"done", "raised"}) =>
           /\ \A k \in 1..Len(SysSteps) :
                  /\ Range(CheckAlone(SysSteps[k]).res.passed) \subseteq Range(validation_results.passed)
                  /\ Range(CheckAlone(SysSteps[k]).res.failed) \subseteq Range(validation_results.failed)
           /\ Range(OtherOrder.res.passed) = Range(validation_results.passed)
           /\ Range(OtherOrder.res.failed) = Range(validation_results.failed)
    /\ (prog = "smart" /\ pc = "done") =>
           validation_items = SmartItems(announcement_data, requirements_data)
-----------------------------------------------------------------------------
(* The audit front end: finding the two files of a case, reading them,     *)
(* asking the model service, parsing its answer.  The programs are         *)
(* tender_audit_system.py ("sys"), ai_tender_audit_v2.py ("aiv2"),         *)
(* tender_audit_gemma_only.py ("gemma") and the 23-item checker ("c23").   *)

AuditPrograms == {"sys", "aiv2", "gemma", "c23"}

\* what the file system can hold at the case folder: the folder may be absent,
\* each of the two files may be absent, and a file that is there may be unreadable
Folders ==
    {f \in [exists : BOOLEAN, announcement : BOOLEAN, requirements : BOOLEAN,
            ann_readable : BOOLEAN, req_readable : BOOLEAN] :
        /\ f.announcement => f.exists
        /\ f.requirements => f.exists
        /\ f.ann_readable => f.announcement
        /\ f.req_readable => f.requirements}

\* what one HTTP exchange with the service can end in, besides the silence that
\* only a timeout ends: an answer whose text is a JSON object with every field,
\* one lacking the case number, an empty object, a JSON array, a text that is
\* not JSON, a body whose "response" is null, a status other than 200, a
\* network error
Replies == {"object", "lacking", "empty_object", "array", "text", "null",
            "status", "network"}

\* TenderDocumentExtractor.call_gemma_ai, AITenderValidator.call_ai_model and
\* AITenderAuditSystemV2.call_gemma: the value the caller receives.  A status
\* other than 200 and every exception (a timeout included) become a message text.
call_gemma(outcome) ==
    IF outcome \in {"status", "network", "timeout"} THEN "text"
    ELSE IF outcome = "null" THEN "None"
    ELSE outcome

\* GemmaDocumentExtractor._call_gemma_json: a status other than 200 and every
\* exception become the text '{}'
_call_gemma_json(outcome) ==
    IF outcome \in {"status", "network", "timeout"} THEN "empty_object"
    ELSE IF outcome = "null" THEN "None"
    ELSE outcome

\* the keyword arguments of requests.post: tender_audit_system.py passes no
\* timeout, the other two programs pass timeout=60
HasTimeout(p) == p \in {"aiv2", "gemma"}

\* the announcement and instructions records a JSON object of the service
\* holds: a good answer is the consistent pair
AnnObject(v) ==
    IF v = "object" THEN AnnConsistent
    ELSE IF v = "lacking" THEN [AnnConsistent EXCEPT !.case_no = MissingText]
    ELSE AnnEmpty

InsObject(v) ==
    IF v = "object" THEN InsConsistent
    ELSE IF v = "lacking" THEN [InsConsistent EXCEPT !.case_no = MissingText]
    ELSE InsEmpty

IsObject(v) == v \in {"object", "lacking", "empty_object"}

\* GemmaDocumentExtractor._get_default_announcement_data
_get_default_announcement_data ==
    [case_no |-> NAText, case_name |-> NAText, tender_method |-> NA,
     amount |-> IntV(0), amount_band |-> NA, legal_basis |-> NA,
     award_method |-> NA, reserve_price |-> "no", multiple_award |-> "no",
     art64_2 |-> "no", category |-> NA, treaty |-> "no", sensitive |-> "no",
     national_security |-> "no", option |-> "none", special |-> "no",
     turnkey |-> "no", negotiation |-> "no", e_collect |-> "no", bond |-> IntV(0),
     disabled_priority |-> "no", foreign |-> "deny", sme_only |-> "no",
     opening |-> NA, qualification |-> Missing]

\* json.loads(ai_response) under "except json.JSONDecodeError" in the two
\* extractors of tender_audit_system.py: None is a TypeError and data.get on
\* a list is an AttributeError, and neither is caught
SysParseError(v) ==
    IF v = "None" THEN "TypeError" ELSE IF v = "array" THEN "AttributeError" ELSE "none"

extract_announcement_data_with_gemma(v) ==
    IF v = "text" THEN AnnFallback ELSE AnnObject(v)

extract_requirements_data_with_gemma(v) ==
    IF v = "text" THEN InsFallback ELSE InsObject(v)

\* json.loads under a bare except, then re.search(r'\{.*\}', ai_response) in
\* the handler (ai_extract_tender_data, ai_validate_all_items,
\* validate_with_ai): re.search on None is a TypeError raised inside the handler
RegexParseError(v) == IF v = "None" THEN "TypeError" ELSE "none"

\* the kind of Python value the parse gives
ParsedKind(v) ==
    IF IsObject(v) THEN "dict" ELSE IF v = "array" THEN "list" ELSE "error_dict"

\* extract_announcement_with_gemma and extract_requirements_with_gemma after a
\* successful document extraction: json.loads under a bare except
GemmaAnnouncement(v) ==
    IF v \in {"None", "text"} THEN _get_default_announcement_data ELSE AnnObject(v)

GemmaRequirements(v) == InsObject(v)

GemmaKind(v) == IF v = "array" THEN "list" ELSE "dict"
\* the requests that were sent and have neither been answered nor timed out
Outstanding == {k \in 1..Len(posts) : posts[k].outcome = "pending"}

\* the service calls each program makes, in the order of its code
FirstStage(p) ==
    IF p = "sys" THEN "announcement" ELSE IF p = "aiv2" THEN "read" ELSE "ann_document"

CallStages(p) ==
    IF p = "sys" THEN {"announcement", "requirements", "ai_validation"}
    ELSE IF p = "aiv2" THEN {"announcement", "requirements", "validation"}
    ELSE {"ann_document", "announcement", "req_document", "requirements",
          "validation", "analysis"}

\* an exception leaves the audit entry point
Raised(e) ==
    /\ pc' = "raised"
    /\ audit_result' = e
    /\ UNCHANGED <<announcement_data, requirements_data, extracted,
                   validation_results, returned, calls, summary>>

\* audit_tender_case / audit_case_with_gemma, step 1: the two files are looked
\* for.  find_announcement_file and find_requirements_file return None for a
\* folder that is absent; ai_tender_audit_v2.py calls os.listdir(case_folder)
\* without that test.  (Folders whose path holds "C13A05954" take a branch of
\* tender_audit_system.py that is not modelled.)
FindFiles(f) ==
    /\ prog \in {"sys", "aiv2", "gemma"}
    /\ pc = "ready"
    /\ case_folder' = f
    /\ IF prog = "aiv2" /\ ~f.exists
       THEN pc' = "raised" /\ audit_result' = "FileNotFoundError"
       ELSE IF ~f.announcement \/ ~f.requirements
       THEN pc' = "aborted" /\ audit_result' = "error_missing_files"
       ELSE pc' = FirstStage(prog) /\ UNCHANGED audit_result
    /\ UNCHANGED <<prog, announcement_data, requirements_data, validation_results,
                   returned, calls, summary, validation_items, detailed_result,
                   announcement_content, instructions_content, results,
                   posts, extracted>>
    /\ UNCHANGED aux

\* ai_tender_audit_v2.py, step 2: extract_document_content on both files; a file
\* that cannot be read gives the empty text, and the audit goes on
ReadDocuments ==
    /\ prog = "aiv2"
    /\ pc = "read"
    /\ pc' = "announcement"
    /\ UNCHANGED <<prog, announcement_data, requirements_data, validation_results,
                   returned, calls, summary, validation_items, detailed_result,
                   announcement_content, instructions_content, results>>
    /\ UNCHANGED io
    /\ UNCHANGED aux

\* extract_document_with_gemma: open(file_path, 'rb') fails, the exception is
\* caught, success stays False and the extraction method returns its default
\* without a request
OpenFails ==
    /\ prog = "gemma"
    /\ \/ /\ pc = "ann_document" /\ ~case_folder.ann_readable
          /\ announcement_data' = _get_default_announcement_data
          /\ extracted' = [extracted EXCEPT !.announcement = "dict"]
          /\ pc' = "req_document"
          /\ UNCHANGED requirements_data
       \/ /\ pc = "req_document" /\ ~case_folder.req_readable
          /\ requirements_data' = InsEmpty
          /\ extracted' = [extracted EXCEPT !.requirements = "dict"]
          /\ pc' = "validation"
          /\ UNCHANGED announcement_data
    /\ UNCHANGED <<prog, validation_results, returned, calls, summary,
                   validation_items, detailed_result, announcement_content,
                   instructions_content, results, case_folder, posts, audit_result>>
    /\ UNCHANGED aux

\* requests.post(...): the one request of a service call leaves, and the call
\* blocks until the exchange ends
SendRequest ==
    /\ prog \in {"sys", "aiv2", "gemma"}
    /\ pc \in CallStages(prog)
    /\ (prog = "gemma" /\ pc = "ann_document") => case_folder.ann_readable
    /\ (prog = "gemma" /\ pc = "req_document") => case_folder.req_readable
    /\ posts' = Append(posts, [purpose |-> pc, timeout |-> HasTimeout(prog),
                               outcome |-> "pending"])
    /\ pc' = "waiting"
    /\ UNCHANGED <<prog, announcement_data, requirements_data, validation_results,
                   returned, calls, summary, validation_items, detailed_result,
                   announcement_content, instructions_content, results,
                   case_folder, extracted, audit_result>>
    /\ UNCHANGED aux
\* TenderAuditSystem.audit_tender_case resumes with the value call_gemma_ai or
\* call_ai_model returned, and runs up to its next service call or its end
SysReceived(purpose, v) ==
    IF purpose = "announcement"
    THEN IF SysParseError(v) # "none" THEN Raised(SysParseError(v))
         ELSE /\ announcement_data' = extract_announcement_data_with_gemma(v)
              /\ extracted' = [extracted EXCEPT !.announcement = "dict"]
              /\ pc' = "requirements"
              /\ UNCHANGED <<requirements_data, audit_result, validation_results,
                             returned, calls, summary>>
    ELSE IF purpose = "requirements"
    THEN IF SysParseError(v) # "none" THEN Raised(SysParseError(v))
         ELSE LET I == extract_requirements_data_with_gemma(v)
                  st == validate_all(validation_results, announcement_data, I)
              IN  /\ requirements_data' = I
                  /\ extracted' = [extracted EXCEPT !.requirements = "dict"]
                  /\ UNCHANGED <<announcement_data, summary>>
                  /\ IF announcement_data = AnnEmpty \/ I = InsEmpty
                     THEN /\ pc' = "aborted"
                          /\ audit_result' = "error_no_content"
                          /\ UNCHANGED <<validation_results, returned, calls>>
                     ELSE /\ validation_results' = st.res
                          /\ calls' = calls + 1
                          /\ IF st.exc = "none"
                             THEN /\ returned' = Append(returned, st.res)
                                  /\ pc' = "ai_validation"
                                  /\ UNCHANGED audit_result
                             ELSE /\ pc' = "raised"
                                  /\ audit_result' = st.exc
                                  /\ UNCHANGED returned
    ELSE IF RegexParseError(v) # "none" THEN Raised(RegexParseError(v))
         ELSE /\ summary' = generate_summary(validation_results)
              /\ audit_result' = "report"
              /\ pc' = "done"
              /\ UNCHANGED <<announcement_data, requirements_data, extracted,
                             validation_results, returned, calls>>

\* a caller that sends the request of a service call again when the call gave
\* a failure message, and ends the audit otherwise
RetryingCaller(purpose, v) ==
    /\ pc' = IF v = "text" THEN purpose ELSE "done"
    /\ audit_result' = IF v = "text" THEN audit_result ELSE "report"
    /\ UNCHANGED <<announcement_data, requirements_data, extracted,
                   validation_results, returned, calls, summary>>

\* AITenderAuditSystemV2.audit_tender_case resumes with the value call_gemma returned
Aiv2Received(purpose, v) ==
    IF RegexParseError(v) # "none" THEN Raised(RegexParseError(v))
    ELSE IF purpose = "announcement"
    THEN /\ announcement_data' = AnnObject(v)
         /\ extracted' = [extracted EXCEPT !.announcement = ParsedKind(v)]
         /\ pc' = "requirements"
         /\ UNCHANGED <<requirements_data, audit_result, validation_results,
                        returned, calls, summary>>
    ELSE IF purpose = "requirements"
    THEN /\ requirements_data' = InsObject(v)
         /\ extracted' = [extracted EXCEPT !.requirements = ParsedKind(v)]
         /\ pc' = "validation"
         /\ UNCHANGED <<announcement_data, audit_result, validation_results,
                        returned, calls, summary>>
    ELSE /\ audit_result' = "report"
         /\ pc' = "done"
         /\ UNCHANGED <<announcement_data, requirements_data, extracted,
                        validation_results, returned, calls, summary>>

\* extract_document_with_gemma: success is "response and 'error' not in
\* response.lower()".  None fails; "API錯誤: 500" succeeds; the message of an
\* exception holds the exception's own text, which may or may not hold "error"
DocumentSuccess(outcome) ==
    IF outcome = "null" THEN {FALSE}
    ELSE IF outcome \in {"network", "timeout"} THEN BOOLEAN
    ELSE {TRUE}

\* GemmaComplianceValidator.validate_with_gemma on the parsed answer: a good
\* answer passes the 23 items; every exception is caught
GemmaValidated(r, v) ==
    IF v = "object"
    THEN [r EXCEPT !.passed = [k \in 1..23 |-> k], !.n_pass = 23, !.n_fail = 0,
                   !.verdict = "pass"]
    ELSE IF IsObject(v) THEN [r EXCEPT !.n_pass = 0, !.n_fail = 0, !.verdict = "pass"]
    ELSE r

\* GemmaAuditSystem.audit_case_with_gemma resumes with the outcome of
\* _call_gemma (the two document requests) or the value of _call_gemma_json
GemmaReceived(purpose, outcome) ==
    LET v == _call_gemma_json(outcome)
    IN  IF purpose = "ann_document"
        THEN \E ok \in DocumentSuccess(outcome) :
                /\ IF ok
                   THEN pc' = "announcement" /\ UNCHANGED <<announcement_data, extracted>>
                   ELSE /\ announcement_data' = _get_default_announcement_data
                        /\ extracted' = [extracted EXCEPT !.announcement = "dict"]
                        /\ pc' = "req_document"
                /\ UNCHANGED <<requirements_data, audit_result, validation_results,
                               returned, calls, summary>>
        ELSE IF purpose = "announcement"
        THEN /\ announcement_data' = GemmaAnnouncement(v)
             /\ extracted' = [extracted EXCEPT !.announcement = GemmaKind(v)]
             /\ pc' = "req_document"
             /\ UNCHANGED <<requirements_data, audit_result, validation_results,
                            returned, calls, summary>>
        ELSE IF purpose = "req_document"
        THEN \E ok \in DocumentSuccess(outcome) :
                /\ IF ok
                   THEN pc' = "requirements" /\ UNCHANGED <<requirements_data, extracted>>
                   ELSE /\ requirements_data' = InsEmpty
                        /\ extracted' = [extracted EXCEPT !.requirements = "dict"]
                        /\ pc' = "validation"
                /\ UNCHANGED <<announcement_data, audit_result, validation_results,
                               returned, calls, summary>>
        ELSE IF purpose = "requirements"
        THEN /\ requirements_data' = GemmaRequirements(v)
             /\ extracted' = [extracted EXCEPT !.requirements = GemmaKind(v)]
             /\ pc' = "validation"
             /\ UNCHANGED <<announcement_data, audit_result, validation_results,
                            returned, calls, summary>>
        ELSE IF purpose = "validation"
        THEN /\ validation_results' = GemmaValidated(validation_results, v)
             /\ calls' = calls + 1
             /\ pc' = "analysis"
             /\ UNCHANGED <<announcement_data, requirements_data, extracted,
                            audit_result, returned, summary>>
        ELSE \* _generate_summary calls analysis.get: a list has no get
             IF v = "array" THEN Raised("AttributeError")
             ELSE /\ audit_result' = "report"
                  /\ pc' = "done"
                  /\ UNCHANGED <<announcement_data, requirements_data, extracted,
                                 validation_results, returned, calls, summary>>

\* the exchange of the outstanding request ends, and the caller goes on
ExchangeEnds(outcome) ==
    /\ pc = "waiting"
    /\ posts' = [posts EXCEPT ![Len(posts)].outcome = outcome]
    /\ LET purpose == posts[Len(posts)].purpose
       IN  IF prog = "sys" THEN SysReceived(purpose, call_gemma(outcome))
           ELSE IF prog = "aiv2" THEN Aiv2Received(purpose, call_gemma(outcome))
           ELSE GemmaReceived(purpose, outcome)
    /\ UNCHANGED <<prog, validation_items, detailed_result, announcement_content,
                   instructions_content, results, case_folder>>
    /\ UNCHANGED aux

\* the service answers, or the network fails
Respond == pc = "waiting" /\ \E outcome \in Replies : ExchangeEnds(outcome)

\* requests.post raises Timeout after the 60 seconds of timeout=60; a request
\* sent without a timeout waits for as long as the service stays silent
TimeOut ==
    /\ pc = "waiting"
    /\ posts[Len(posts)].timeout
    /\ ExchangeEnds("timeout")

FindRun == pc = "ready" /\ \E f \in Folders : FindFiles(f)

InitAudit == prog \in AuditPrograms /\ Fresh

NextAudit ==
    FindRun \/ ReadDocuments \/ OpenFails \/ SendRequest \/ Respond \/ TimeOut \/ C23Run1

SpecAudit == InitAudit /\ [][NextAudit]_vars
-----------------------------------------------------------------------------
(* Properties of the audit front end.                                      *)

\* the dicts with the key 錯誤 that the audit entry points return
ErrorResults == {"error_missing_files", "error_no_content"}

\* the audit was given a folder where one of the two files is not found
FileNotFound ==
    IF prog = "c23"
    THEN calls > 0 /\ (~announcement_content.found \/ ~instructions_content.found)
    ELSE pc # "ready" /\ (~case_folder.announcement \/ ~case_folder.requirements)

\* C14: when the announcement file or the instructions file is not found (the
\* case folder itself may be absent), the audit is aborted: an error result is
\* returned, no request is sent to the service and no check is evaluated.
C14_MissingFile ==
    (prog \in {"sys", "aiv2", "c23"} /\ FileNotFound) =>
        /\ audit_result \in ErrorResults
        /\ posts = <<>>
        /\ results = <<>>
        /\ validation_results = ConstructedResults(prog)
\* the audit entry point has returned or was left by an exception
Finished == {"done", "aborted", "raised"}

\* both files were found and one of them cannot be read
Unreadable ==
    IF prog = "c23"
    THEN /\ calls > 0
         /\ announcement_content.found /\ instructions_content.found
         /\ (announcement_content.empty \/ instructions_content.empty)
    ELSE /\ case_folder.announcement /\ case_folder.requirements
         /\ (~case_folder.ann_readable \/ ~case_folder.req_readable)

\* C15: when a document that was found cannot be read (its archive does not
\* open, or its text is empty), the audit is incomplete as a whole: an error
\* result is returned, no field is extracted and no check gives a verdict.
C15_UnreadableDocument ==
    (prog \in {"aiv2", "c23"} /\ Unreadable) =>
        /\ posts = <<>>
        /\ extracted = NotExtracted
        /\ results = <<>>
        /\ pc \in Finished => audit_result \in ErrorResults
\* the request of this purpose was sent and its exchange has ended
Answered(purpose) ==
    \E k \in 1..Len(posts) : posts[k].purpose = purpose /\ posts[k].outcome # "pending"

\* every key of the record is present (empty is the record with every key absent)
NoFieldAbsent(d, empty) == \A k \in DOMAIN d : d[k] # empty[k]

\* C16: field extraction never raises to its caller, whatever the service
\* returns; it always returns a record, and every field it could not obtain
\* holds the unknown sentinel (so no key of the record is absent).
C16_ExtractionTotal ==
    /\ (prog = "sys" /\ Answered("announcement")) =>
           /\ extracted.announcement = "dict"
           /\ NoFieldAbsent(announcement_data, AnnEmpty)
    /\ (prog \in {"sys", "gemma"} /\ Answered("requirements")) =>
           /\ extracted.requirements = "dict"
           /\ NoFieldAbsent(requirements_data, InsEmpty)
\* the answer to the request of this purpose was a text that is not JSON
Unparseable(purpose) ==
    \E k \in 1..Len(posts) : posts[k].purpose = purpose /\ posts[k].outcome = "text"

\* the records whose every field holds the unknown sentinel
AnnUnknown ==
    [k \in DOMAIN AnnEmpty |->
        IF k \in {"case_no", "case_name"} THEN NAText
        ELSE IF k \in {"amount", "bond"} THEN StrV(NA, -1) ELSE NA]

InsUnknown ==
    [k \in DOMAIN InsEmpty |->
        IF k \in {"case_no", "object_name"} THEN NAText
        ELSE IF k = "bond_amount" THEN StrV(NA, -1) ELSE NA]

\* no field of the record holds a definite value: each is absent or the sentinel
FullyUnknown(d, empty, unknown) == \A k \in DOMAIN d : d[k] \in {empty[k], unknown[k]}

\* C17: when the service's answer cannot be parsed at all, extraction returns a
\* fully unknown record: no yes/no, allow/deny, checked/unchecked or number
\* that was not read from the document.
C17_NoFabrication ==
    /\ (prog = "sys" /\ Unparseable("requirements") /\ extracted.requirements = "dict") =>
           FullyUnknown(requirements_data, InsEmpty, InsUnknown)
    /\ (prog = "gemma" /\ Unparseable("announcement") /\ extracted.announcement = "dict") =>
           FullyUnknown(announcement_data, AnnEmpty, AnnUnknown)
\* the service outcomes a failure or a short answer consists of: a network
\* error, a status other than 200, a text that is not JSON, a JSON object
\* lacking a field (or every field), besides the good answer
ServiceFailures == {"network", "status", "text", "lacking", "empty_object", "object"}

OnlyServiceFailures ==
    \A k \in 1..Len(posts) : posts[k].outcome \in ServiceFailures \cup {"pending"}

\* C18: a service failure is never a crash: once the files are found, whatever
\* the service does (network error, status other than 200, text that is not
\* JSON, JSON object lacking a field such as the case number),
\* audit_tender_case of tender_audit_system.py ends without an uncaught exception.
C18_NoCrash ==
    (prog = "sys" /\ OnlyServiceFailures) => pc # "raised"
-----------------------------------------------------------------------------
(* Termination of the two programs that ask the service through            *)
(* call_gemma_ai / call_ai_model and call_gemma.  A program is sequential: *)
(* each of its own steps is taken once it is reached, and requests.post    *)
(* raises Timeout once the time it was given has passed.  Nothing obliges  *)
(* the service to answer.                                                  *)

InitService == InitAudit /\ prog \in {"sys", "aiv2"}

NextService == FindRun \/ ReadDocuments \/ SendRequest \/ Respond \/ TimeOut

SpecService ==
    /\ InitService
    /\ [][NextService]_vars
    /\ WF_vars(FindRun)
    /\ WF_vars(ReadDocuments)
    /\ WF_vars(SendRequest)
    /\ WF_vars(TimeOut)

\* C19: every service call is bounded by a timeout, so the audit always
\* terminates, with a report or an error result, however the service behaves
\* (a service that never answers included).
C19_Terminates == <>(pc \in Finished)
-----------------------------------------------------------------------------
(* The requests of one audit.                                              *)

\* this call's request ended without an answer of the service
FailedRequest(k) == posts[k].outcome \in {"timeout", "network", "status"}

\* C20: during one audit at most one request to the service is outstanding, and
\* a request that failed or timed out is never sent again: each service call
\* makes exactly one HTTP POST, so no purpose occurs twice among the requests,
\* and a request is outstanding exactly while its call has not returned.
C20_OneRequestNoRetry ==
    prog \in {"aiv2", "gemma"} =>
        /\ Cardinality(Outstanding) <= 1
        /\ \A j, k \in 1..Len(posts) : posts[j].purpose = posts[k].purpose => j = k
        /\ Outstanding # {} <=> pc = "waiting"
        /\ Outstanding \subseteq {Len(posts)}

\* an audit whose first request timed out and whose second met a network
\* error has ended after one request per service call
C20_Witness ==
    /\ prog \in {"aiv2", "gemma"}
    /\ pc = "done"
    /\ Len(posts) >= 3
    /\ posts[1].outcome = "timeout"
    /\ posts[2].outcome = "network"
    /\ \A k \in 1..Len(posts) : FailedRequest(k)
-----------------------------------------------------------------------------
(* Properties of the result list and of the reports.                       *)

\* C21: check identifiers are the stable integers 1..23: the result list
\* check_case builds holds the num values 1, 2, ..., 23 in that order, each
\* exactly once, whatever the two texts are.
C21_StableIdentifiers ==
    (prog = "c23" /\ pc = "done") =>
        /\ Len(results) = 23
        /\ \A i \in 1..Len(results) : results[i].num = i
\* C22: the text report of export_to_txt shows, for every check it lists, the
\* pass or fail marker the rule engine recorded for that number: after a
\* completed validate_all no listed check is shown as unchecked.
C22_NoUncheckedLine ==
    (prog = "sys" /\ pc = "exported") =>
        \A k \in DOMAIN report_lines : report_lines[k].mark # "unchecked"
-----------------------------------------------------------------------------
(* The text report of AITenderAuditSystemV2: export_ai_report reads the    *)
(* two extracted records of the audit's result and writes, for each of the *)
(* 23 checks, the announcement value, the instructions value and a marker  *)
(* it computes itself from the two records.                                *)

\* 標的分類 / 財物性質 as the service may spell them: "buy_custom" = 買受，定製
\* (with the comma), "buy_custom_plain" = 買受定製 (without it)
ReportCategories == {"buy_custom", "buy_custom_plain", "lease", NA, Missing}

\* the marker of a check that reads no field
AlwaysPass(k) == k \in {3, 5, 6, 7, 11, 13, 14, 15, 16, 18, 19, 20, 21, 22}

\* 採購金額 after `if isinstance(採購金額, str): 採購金額 = int(採購金額.replace(',', ''))`
\* (a str holds the integer its digits spell)
ReportAmount(A) == GetAmt(A, "amount").n

\* int() of a text without digits, and the format code ',' given a str, raise ValueError
AiReportError(A) ==
    IF GetAmt(A, "amount").t = "str" /\ GetAmt(A, "amount").n = -1 THEN "ValueError"
    ELSE IF GetAmt(A, "bond").t = "str" THEN "ValueError"
    ELSE "none"

\* the marker export_ai_report writes under check k
AiReportMark(k, A, I, nature) ==
    IF AlwaysPass(k) THEN "pass"
    ELSE IF k = 1 THEN (IF A.case_no # I.case_no THEN "fail" ELSE "pass")
    ELSE IF k = 2 THEN (IF 15 <= (ReportAmount(A) \div 10000) /\ (ReportAmount(A) \div 10000) < 150
                        THEN "pass" ELSE "fail")
    ELSE IF k = 4 THEN (IF A.award_method = "highest" THEN "fail" ELSE "pass")
    ELSE IF k = 8 THEN (IF A.category # nature THEN "fail" ELSE "pass")
    ELSE IF k = 9 THEN (IF A.treaty = "no" /\ I.p8_treaty = "checked" THEN "fail" ELSE "pass")
    ELSE IF k = 10 THEN "confirm"
    ELSE IF k = 12 THEN (IF A.option = "yes" /\ I.p7_nokeep = "checked" THEN "fail" ELSE "pass")
    ELSE IF k = 17 THEN (IF GetAmt(A, "bond") # GetAmt(I, "bond_amount") THEN "fail" ELSE "pass")
    ELSE (IF I.p42_single = "checked" /\ I.p42_two = "checked" THEN "fail" ELSE "pass")

\* the block of check k: the marker, and for check 8 the two values compared
AiReportBlock(k, A, I, nature) ==
    [mark |-> AiReportMark(k, A, I, nature),
     ann |-> IF k = 8 THEN A.category ELSE "",
     ins |-> IF k = 8 THEN nature ELSE ""]

\* export_ai_report(result): A and I are result["AI提取資料"]["招標公告"] and
\* ["投標須知"], nature is the 財物性質 of the latter
ExportAiReport(A, I, nature) ==
    /\ announcement_data' = A
    /\ requirements_data' = I
    /\ IF AiReportError(A) = "none"
       THEN /\ report_lines' = [k \in 1..23 |-> AiReportBlock(k, A, I, nature)]
            /\ pc' = "exported"
       ELSE /\ pc' = "export_raised"
            /\ UNCHANGED report_lines
    /\ UNCHANGED <<prog, validation_results, returned, calls, summary, validation_items,
                   detailed_result, announcement_content, instructions_content, results,
                   listing, selected, conversation_history, ai_response, loads, parsed>>
    /\ UNCHANGED io

\* the records of the batch, one with 押標金 as a text, one with 採購金額 unknown
ReportInputs ==
    BatchInputs \cup {<<[AnnConsistent EXCEPT !.bond = StrV("59,000", 59000)], InsConsistent>>,
                      <<[AnnConsistent EXCEPT !.amount = StrV(NA, -1)], InsConsistent>>}

InitReport == InitAudit /\ prog = "aiv2"

ExportRun ==
    /\ prog = "aiv2" /\ pc = "ready"
    /\ \E in \in ReportInputs : \E category \in ReportCategories : \E nature \in ReportCategories :
           ExportAiReport([in[1] EXCEPT !.category = category], in[2], nature)

NextReport == ExportRun

SpecReport == InitReport /\ [][NextReport]_vars

\* the two spellings of one classification
SamePunctuation(a, b) ==
    {a, b} = {"buy_custom", "buy_custom_plain"}

\* C23: in AITenderAuditSystemV2 classifications that differ only in
\* punctuation are consistent: 標的分類 買受，定製 against 財物性質 買受定製, or
\* the reverse, is reported as pass for check 8.
C23_PunctuationInsensitive ==
    (prog = "aiv2" /\ pc = "exported" /\ SamePunctuation(report_lines[8].ann, report_lines[8].ins)) =>
        report_lines[8].mark = "pass"
-----------------------------------------------------------------------------
(* Parsing the text of a service answer: parse_json_response of            *)
(* test_gemma_extraction.py, the end of ai_extract_tender_data of          *)
(* ai_tender_audit_v2.py and the end of validate_with_ai of                *)
(* tender_audit_system.py.  A text is a sequence over four symbols: the    *)
(* two braces, "v" for one "key": value pair and "x" for any other         *)
(* character.                                                              *)

\* the longest answer text
MaxLen == 3

Alphabet == {"{", "}", "v", "x"}

\* response.json().get('response', '') of a body whose "response" is null
NoneResponse == <<"<None>">>

Texts == UNION {[1..n -> Alphabet] : n \in 0..MaxLen}

\* the programs that parse an answer with the regular expression
ParsePrograms == {"extraction_test", "aiv2", "sys"}

\* json.loads(t): the texts of the alphabet that are JSON are {} and {"key": value};
\* None is a TypeError, every other text a JSONDecodeError
json_loads(t) ==
    IF t = NoneResponse THEN [exc |-> "TypeError", fields |-> 0]
    ELSE IF t = <<"{", "}">> THEN [exc |-> "none", fields |-> 0]
    ELSE IF t = <<"{", "v", "}">> THEN [exc |-> "none", fields |-> 1]
    ELSE [exc |-> "JSONDecodeError", fields |-> 0]

Positions(t, c) == {i \in 1..Len(t) : t[i] = c}

Min(S) == CHOOSE x \in S : \A y \in S : x <= y
Max(S) == CHOOSE x \in S : \A y \in S : x >= y

\* re.search(r'\{.*\}', t, re.DOTALL): the leftmost match is greedy, from the
\* first '{' to the last '}' when that one is behind it
HasMatch(t) ==
    /\ Positions(t, "{") # {}
    /\ Positions(t, "}") # {}
    /\ Min(Positions(t, "{")) < Max(Positions(t, "}"))

MatchGroup(t) == SubSeq(t, Min(Positions(t, "{")), Max(Positions(t, "}")))

\* what the parse returns when nothing was parsed: {} in the extraction test,
\* the dict with 錯誤 and 原始回應 in the two audit systems
FailureRecord(p) ==
    IF p = "extraction_test" THEN [kind |-> "empty", fields |-> 0]
    ELSE [kind |-> "error", fields |-> 0]

\* try: return json.loads(text) / except: m = re.search(...); if m: try: return
\* json.loads(m.group()) / except: pass; return the failure record
ParseResponse(text) ==
    /\ ai_response' = text
    /\ IF json_loads(text).exc = "none"
       THEN /\ loads' = <<text>>
            /\ parsed' = [kind |-> "dict", fields |-> json_loads(text).fields]
            /\ pc' = "parsed"
       ELSE IF text = NoneResponse
       THEN \* re.search(..., None) raises TypeError inside the handler
            /\ loads' = <<text>>
            /\ pc' = "parse_raised"
            /\ UNCHANGED parsed
       ELSE IF HasMatch(text)
       THEN /\ loads' = <<text, MatchGroup(text)>>
            /\ parsed' = IF json_loads(MatchGroup(text)).exc = "none"
                         THEN [kind |-> "dict", fields |-> json_loads(MatchGroup(text)).fields]
                         ELSE FailureRecord(prog)
            /\ pc' = "parsed"
       ELSE /\ loads' = <<text>>
            /\ parsed' = FailureRecord(prog)
            /\ pc' = "parsed"
    /\ UNCHANGED <<prog, announcement_data, requirements_data, validation_results, returned,
                   calls, summary, validation_items, detailed_result, announcement_content,
                   instructions_content, results, report_lines, listing, selected,
                   conversation_history>>
    /\ UNCHANGED io

InitParse == prog \in ParsePrograms /\ Fresh

ParseRun == pc = "ready" /\ \E text \in Texts \cup {NoneResponse} : ParseResponse(text)

NextParse == ParseRun

SpecParse == InitParse /\ [][NextParse]_vars

\* C24: parsing a service response is a bounded two-stage procedure: one
\* direct parse of the whole text; if that fails, exactly one parse of the
\* substring from the first '{' to the last '}'; if that fails too, or there is
\* no such substring, an error or empty record with no extracted field value is
\* returned.  Nothing else is tried and no exception leaves the procedure.
C24_BoundedParse ==
    (prog \in ParsePrograms /\ pc # "ready") =>
        /\ pc = "parsed"
        /\ loads[1] = ai_response
        /\ Len(loads) <= 2
        /\ Len(loads) = 2 <=> (json_loads(ai_response).exc # "none" /\ HasMatch(ai_response))
        /\ Len(loads) = 2 => loads[2] = MatchGroup(ai_response)
        /\ IF json_loads(loads[Len(loads)]).exc = "none"
           THEN parsed = [kind |-> "dict", fields |-> json_loads(loads[Len(loads)]).fields]
           ELSE parsed \in {[kind |-> "empty", fields |-> 0], [kind |-> "error", fields |-> 0]}
-----------------------------------------------------------------------------
(* Check 8 and the instructions record.                                    *)

\* instructions records to compare a run's record with
OtherInstructions == {InsEmpty, InsConsistent, InsSample, InsFallback}

\* what validate_item_8 of the run's program records on a fresh validator
Item8Outcome(A, I) ==
    IF prog = "v1" THEN v1_validate_item_8(ConstructedResults("v1"), A, I)
    ELSE validate_item_8(ConstructedResults("sys"), A, I)

\* 標的分類 contains 買受，定製
BuysCustom(A) == Contains("kw_buy_custom", Get(A, "category", ""))

-----------------------------------------------------------------------------
(* The result record of one validate_all call.                             *)

\* 通過項次 and 失敗項次 are disjoint and hold no number twice
ListsDisjoint(r) ==
    /\ Range(r.passed) \cap Range(r.failed) = {}
    /\ \A k \in Range(r.passed) \cup Range(r.failed) :
           Occurrences(r.passed, k) <= 1 /\ Occurrences(r.failed, k) <= 1

\* 錯誤詳情 holds one entry for each number of 失敗項次, and no other
OneDetailPerFailure(r) ==
    /\ Len(r.errors) = Len(r.failed)
    /\ \A i \in 1..Len(r.errors) : r.errors[i].item = r.failed[i]

\* 通過數 and 失敗數 are the lengths of the lists
CountsAreLengths(r) == r.n_pass = Len(r.passed) /\ r.n_fail = Len(r.failed)

-----------------------------------------------------------------------------
(* The verdict fields of a TenderAuditSystem report.                       *)

\* C27: the verdict fields of a TenderAuditSystem report agree for every
\* failure count f = 失敗數: 審核結果 is 通過 exactly when f = 0; 最終判定 is
\* 通過 for f = 0, 條件通過 for 1 <= f <= 2, 不通過 for f >= 3; 風險評估 is 低,
\* 中, 高 on the same three ranges; so 風險評估 is 高 exactly when 最終判定 is 不通過.
C27_VerdictsAgree ==
    (prog = "sys" /\ pc = "done") =>
        LET f == validation_results.n_fail
        IN  /\ summary.problems = f
            /\ validation_results.verdict = "pass" <=> f = 0
            /\ summary.rule_verdict = validation_results.verdict
            /\ summary.final = (IF f = 0 THEN "pass"
                                ELSE IF f <= 2 THEN "conditional_pass" ELSE "fail")
            /\ summary.risk = (IF f = 0 THEN "low" ELSE IF f <= 2 THEN "medium" ELSE "high")
            /\ summary.risk = "high" <=> summary.final = "fail"

\* a report of three or four failures: high risk, not passed
C27_Witness ==
    /\ prog = "sys" /\ pc = "done"
    /\ validation_results.n_fail \in {3, 4}
    /\ summary.risk = "high"
    /\ summary.final = "fail"
-----------------------------------------------------------------------------
(* The verdict of the Gemma-only validator.                                *)

\* C28: validate_with_gemma returns 審核結果 = 通過 only when all 23 checks
\* were recorded as passed (通過數 = 總項次 = 23); when the service call fails,
\* or its answer cannot be parsed or holds no check entry, the verdict
\* returned is not 通過.
C28_PassNeedsAllChecks ==
    (prog = "gemma" /\ calls > 0 /\ validation_results.verdict = "pass") =>
        /\ validation_results.total = 23
        /\ validation_results.n_pass = 23
        /\ Len(validation_results.passed) = 23
-----------------------------------------------------------------------------
(* Finding the two documents in the case folder: find_announcement_file    *)
(* and find_requirements_file of TenderAuditSystem and of GemmaAuditSystem.*)
(* A file name is what the finders test of it: how it starts, how it ends, *)
(* and which of the words it holds.                                        *)

\* the most files in a case folder
MaxFiles == 2

\* prefix: the name starts with 01, 02, 03, ~$ or something else
\* ext: the name ends with .odt, .docx or something else
\* word: "notice" = the name holds 公告事項 or 公開取得報價, "public" = it holds
\*   公告 or 公開 but neither of those two, "none" = none of them
\* instructions: the name holds 須知
FileNames ==
    [prefix : {"01", "02", "03", "~$", "other"}, ext : {"odt", "docx", "other"},
     word : {"notice", "public", "none"}, instructions : BOOLEAN]

\* os.listdir: the names of a folder, each once, in any order
Listings(n) ==
    {l \in UNION {[1..k -> FileNames] : k \in 0..n} :
        \A i, j \in 1..Len(l) : i # j => l[i] # l[j]}

FinderPrograms == {"sys", "gemma"}

\* the test of find_announcement_file on one name
IsAnnouncement(p, file) ==
    /\ file.ext = "odt" /\ file.prefix # "~$"
    /\ IF p = "sys"
       THEN \/ file.word = "notice" /\ ~file.instructions
            \/ file.prefix = "01" /\ ~file.instructions
       ELSE \/ file.word \in {"notice", "public"} /\ ~file.instructions
            \/ file.prefix = "01"

\* the test of find_requirements_file on one name
IsRequirements(file) ==
    /\ file.prefix # "~$"
    /\ \/ file.ext \in {"docx", "odt"} /\ file.instructions
       \/ file.prefix \in {"03", "02"}

\* the first of the places of a listing whose name passes a test, 0 (None) when there is none
FirstOf(places) == IF places = {} THEN 0 ELSE Min(places)

find_announcement_file(p, l) == FirstOf({i \in 1..Len(l) : IsAnnouncement(p, l[i])})

find_requirements_file(l) == FirstOf({i \in 1..Len(l) : IsRequirements(l[i])})

\* the first two statements of the audit entry point on a folder holding l
FindDocuments(l) ==
    /\ listing' = l
    /\ selected' = [announcement |-> find_announcement_file(prog, l),
                    requirements |-> find_requirements_file(l)]
    /\ pc' = IF find_announcement_file(prog, l) = 0 \/ find_requirements_file(l) = 0
             THEN "missing" ELSE "found"
    /\ UNCHANGED <<prog, announcement_data, requirements_data, validation_results, returned,
                   calls, summary, validation_items, detailed_result, announcement_content,
                   instructions_content, results, report_lines, conversation_history,
                   ai_response, loads, parsed>>
    /\ UNCHANGED io

InitFind == prog \in FinderPrograms /\ Fresh

FindDocumentsRun == pc = "ready" /\ \E l \in Listings(MaxFiles) : FindDocuments(l)

NextFind == FindDocumentsRun

SpecFind == InitFind /\ [][NextFind]_vars

\* C29: for every listing of a case folder in which both documents are found,
\* the file selected as the announcement and the file selected as the
\* instructions are two different files.
C29_DistinctDocuments ==
    (prog \in FinderPrograms /\ pc = "found") =>
        selected.announcement # selected.requirements
-----------------------------------------------------------------------------
(* ollama_chat.py: one OllamaChat object, its chat and clear_history.      *)

\* the most messages the history holds
MaxMessages == 6

UserInputs == {"hello", "bye"}

\* how the request of one chat call ends: an answer with a message content, an
\* answer without one (the default 無回應 is recorded), a status other than
\* 200, an exception of requests.post or of response.json()
ChatOutcomes == {"content", "no_content", "status", "exception"}

\* OllamaChat.chat(user_input): the user message is appended before the
\* request; the assistant message is appended only after a 200 answer
chat(history, user_input, outcome) ==
    LET asked == Append(history, [role |-> "user", content |-> user_input])
    IN  IF outcome = "content"
        THEN Append(asked, [role |-> "assistant", content |-> "answer"])
        ELSE IF outcome = "no_content"
        THEN Append(asked, [role |-> "assistant", content |-> "no_reply"])
        ELSE asked

Chat ==
    /\ prog = "chat"
    /\ Len(conversation_history) + 2 <= MaxMessages
    /\ \E user_input \in UserInputs : \E outcome \in ChatOutcomes :
           conversation_history' = chat(conversation_history, user_input, outcome)
    /\ UNCHANGED <<prog, pc, announcement_data, requirements_data, validation_results,
                   returned, calls, summary, validation_items, detailed_result,
                   announcement_content, instructions_content, results, report_lines,
                   listing, selected, ai_response, loads, parsed>>
    /\ UNCHANGED io

\* OllamaChat.clear_history
ClearHistory ==
    /\ prog = "chat"
    /\ conversation_history' = <<>>
    /\ UNCHANGED <<prog, pc, announcement_data, requirements_data, validation_results,
                   returned, calls, summary, validation_items, detailed_result,
                   announcement_content, instructions_content, results, report_lines,
                   listing, selected, ai_response, loads, parsed>>
    /\ UNCHANGED io

InitChat == prog = "chat" /\ Fresh

NextChat == Chat \/ ClearHistory

SpecChat == InitChat /\ [][NextChat]_vars

\* C30: after any sequence of chat and clear_history calls on one OllamaChat,
\* conversation_history alternates user, assistant, user, assistant, ...: it
\* begins with a user message and ends with an assistant message (a chat call
\* whose request failed having left it as it was before the call).
C30_HistoryAlternates ==
    prog = "chat" =>
        /\ \A i \in 1..Len(conversation_history) :
               conversation_history[i].role = (IF i % 2 = 1 THEN "user" ELSE "assistant")
        /\ Len(conversation_history) % 2 = 0
====
